---- MODULE Spec2Model ----
(***************************************************************************)
(* Model of the core of markdown-rs: the event log, the EditMap, the label *)
(* end construct with the media resolver, and the attention resolver.      *)
(*                                                                         *)
(* Indices (event indices, byte indices, edit positions) are the 0-based   *)
(* indices of the Rust code; At(s, i) reads element i of a sequence.       *)
(***************************************************************************)
EXTENDS Integers, Sequences, FiniteSets, TLC

VARIABLES
    bytes,                  \* parse_state.bytes / codes: the source buffer
    definitions,            \* parse_state.definitions: normalized identifiers
    pc,                     \* the state function the driver runs next
    index,                  \* tokenizer.point.index
    events,                 \* tokenizer.events
    label_start_stack,      \* tokenizer.label_start_stack
    label_start_list_loose, \* tokenizer.label_start_list_loose
    media_list,             \* tokenizer.media_list
    info,                   \* the Info the label end closures carry
    checkpoint,             \* the snapshot of the attempt around label end
    map,                    \* tokenizer.map: the EditMap
    resolvers,              \* the resolver registry, in running order
    sequences,              \* attention: `sequences` of resolve
    close,                  \* attention: `close` of the pairing loop
    matches,                \* attention: the matches made so far (history)
    calls,                  \* EditMap: the add calls made so far (history)
    tokenize_state,         \* tokenizer.tokenize_state: the marker scratch
    constructs,             \* parse_state.constructs: the constructs enabled
    position,               \* slice: the Position given to from_position
    slice                   \* slice: the Slice from_position returns

vars == <<bytes, definitions, pc, index, events, label_start_stack,
          label_start_list_loose, media_list, info, checkpoint, map,
          resolvers, sequences, close, matches,
          calls, tokenize_state, constructs, position, slice>>

----------------------------------------------------------------------------
(* Basic values *)

\* Option::None of an index.
None == 0 - 1

\* Element i (0-based) of a sequence.
At(s, i) == s[i + 1]

\* The slice s[from..to] of Rust: elements from (inclusive) to to (exclusive).
Slice(s, from, to) == SubSeq(s, from + 1, to)

\* An event without link, at a point (its byte index).
Event(kind, name, point) ==
    [kind |-> kind, name |-> name, point |-> point,
     previous |-> None, next |-> None]

\* Code::None: the end of the buffer.
Eof == "eof"

\* A Point: the byte index and the virtual spaces passed inside a tab.
Point(i, v) == [index |-> i, vs |-> v]

\* The Position and the Slice of a pass that makes no slice.
NoPosition == [start |-> Point(0, 0), end |-> Point(0, 0)]
NoSlice == [bytes |-> <<>>, before |-> 0, after |-> 0]

\* The byte 0 that tokenize_state.marker holds outside a construct.
Nul == "nul"

\* parse_state.constructs with every construct of the model enabled.
AllConstructs == [attention |-> TRUE]

\* tokenizer.current: the byte at i, or Eof.
Code(i) == IF i < Len(bytes) THEN At(bytes, i) ELSE Eof

RECURSIVE Flatten(_)
\* The concatenation of a sequence of byte strings.
Flatten(ss) == IF ss = <<>> THEN <<>> ELSE Head(ss) \o Flatten(Tail(ss))

----------------------------------------------------------------------------
(* EditMap *)

\* EditMap::new
EditMapNew == [consumed |-> FALSE, map |-> <<>>]

\* A slip: the scan of add_impl finds no entry.
FindAtNothing(m, at, i) == 0

RECURSIVE FindAt(_, _, _)
\* The scan of add_impl: the first position (1-based) in m whose `at` is
\* at, starting at position i; 0 when there is none.
FindAt(m, at, i) ==
    IF i > Len(m) THEN 0
    ELSE IF m[i].at = at THEN i
    ELSE FindAt(m, at, i + 1)

\* A plausible slip: add and add_before swapped.
add_impl_swapped(edit_map, at, remove, add, before) ==
    LET i == FindAt(edit_map.map, at, 1) IN
    IF i = 0
    THEN [edit_map EXCEPT !.map =
              Append(@, [at |-> at, remove |-> remove, add |-> add])]
    ELSE [edit_map EXCEPT
              !.map[i].remove = @ + remove,
              !.map[i].add = IF before THEN @ \o add ELSE add \o @]

\* add_impl, on a map that is not consumed (the callers check the assertion).
add_impl(edit_map, at, remove, add, before) ==
    LET i == FindAt(edit_map.map, at, 1) IN
    IF i = 0
    THEN [edit_map EXCEPT !.map =
              Append(@, [at |-> at, remove |-> remove, add |-> add])]
    ELSE [edit_map EXCEPT
              !.map[i].remove = @ + remove,
              !.map[i].add = IF before THEN add \o @ ELSE @ \o add]

\* EditMap::add
MapAdd(edit_map, at, remove, add) == add_impl(edit_map, at, remove, add, FALSE)

\* EditMap::add_before
MapAddBefore(edit_map, at, remove, add) ==
    add_impl(edit_map, at, remove, add, TRUE)

\* A slip: the edits stay in the order they were recorded in.
SortByAtNone(m) == m

RECURSIVE SortByAt(_)
\* sort_unstable_by on `at`: add_impl keeps one entry per `at`, so the order
\* of the result is determined.
SortByAt(m) ==
    IF m = <<>> THEN <<>>
    ELSE LET k == CHOOSE k \in 1..Len(m) :
                      \A j \in 1..Len(m) : m[k].at <= m[j].at
             rest == [j \in 1..(Len(m) - 1) |-> IF j < k THEN m[j] ELSE m[j + 1]]
         IN <<m[k]>> \o SortByAt(rest)

RECURSIVE Jumps(_, _, _)
\* The jumps table of consume: (at, cumulative shift) per sorted edit.
Jumps(m, i, shift) ==
    IF i > Len(m) THEN <<>>
    ELSE LET next == shift + Len(m[i].add) - m[i].remove
         IN <<[at |-> m[i].at, shift |-> next]>> \o Jumps(m, i + 1, next)

RECURSIVE JumpOf(_, _, _, _)
\* The closure `map` of shift_links: the shift of the last jump whose `at`
\* is not past `before`, scanning until the first jump that is.
JumpOf(jumps, before, jump_index, jump) ==
    IF jump_index > Len(jumps) THEN jump
    ELSE IF jumps[jump_index].at > before THEN jump
    ELSE JumpOf(jumps, before, jump_index + 1, jumps[jump_index].shift)

\* shift_links on one link.
ShiftLink(link, jumps) ==
    IF link = None THEN None ELSE link + JumpOf(jumps, link, 1, 0)

\* shift_links
shift_links(evs, jumps) ==
    [i \in 1..Len(evs) |->
        [evs[i] EXCEPT !.previous = ShiftLink(@, jumps),
                       !.next = ShiftLink(@, jumps)]]

RECURSIVE ConsumeLoopNoRemove(_, _, _, _, _, _)
\* A slip: `start` moves to the edit, not past what it removes.
ConsumeLoopNoRemove(m, evs, jumps, i, start, next_events) ==
    IF i > Len(m)
    THEN IF start < Len(evs)
         THEN next_events \o shift_links(Slice(evs, start, Len(evs)), jumps)
         ELSE next_events
    ELSE LET at == m[i].at
             kept == IF start < at
                     THEN shift_links(Slice(evs, start, at), jumps)
                     ELSE <<>>
         IN ConsumeLoopNoRemove(m, evs, jumps, i + 1, at,
                                next_events \o kept \o m[i].add)

RECURSIVE ConsumeLoop(_, _, _, _, _, _)
\* The second loop of consume with the tail copy after it.
ConsumeLoop(m, evs, jumps, i, start, next_events) ==
    IF i > Len(m)
    THEN IF start < Len(evs)
         THEN next_events \o shift_links(Slice(evs, start, Len(evs)), jumps)
         ELSE next_events
    ELSE LET at == m[i].at
             kept == IF start < at
                     THEN shift_links(Slice(evs, start, at), jumps)
                     ELSE <<>>
         IN ConsumeLoop(m, evs, jumps, i + 1, at + m[i].remove,
                        next_events \o kept \o m[i].add)

\* EditMap::consume: the event vector it returns.
consume(edit_map, evs) ==
    LET sorted == SortByAt(edit_map.map)
    IN ConsumeLoop(sorted, evs, Jumps(sorted, 1, 0), 1, 0, <<>>)

----------------------------------------------------------------------------
(* The tokenizer driver and the text content around the constructs *)

\* Bytes at which the text content tries a construct; data stops before them.
TextMarkers == {"!", "[", "]", "*", "_"}

\* Bytes that are whitespace.
Whitespace == {" ", "\t", "\n"}

\* A slip: register_resolver_before puts the name at the back.
register_resolver_before_at_back(rs, name) ==
    IF \E i \in 1..Len(rs) : rs[i] = name THEN rs ELSE Append(rs, name)

\* Tokenizer::register_resolver_before: once per name, at the front.
register_resolver_before(rs, name) ==
    IF \E i \in 1..Len(rs) : rs[i] = name THEN rs ELSE <<name>> \o rs

\* Tokenizer::register_resolver: once per name, at the back.
register_resolver(rs, name) ==
    IF \E i \in 1..Len(rs) : rs[i] = name THEN rs ELSE Append(rs, name)

RECURSIVE DataEnd(_)
\* The data construct: the index where data that holds byte i - 1 ends.
DataEnd(i) ==
    IF Code(i) = Eof \/ Code(i) \in TextMarkers THEN i ELSE DataEnd(i + 1)

\* Whether the text content tries label start (image) at i and it matches.
AtLabelStartImage(i) == Code(i) = "!" /\ Code(i + 1) = "["

\* The text content at a byte no construct takes, or after a construct
\* returned Nok: one Data span up to the next marker byte.
TextData ==
    /\ \/ pc = "data"
       \/ /\ pc = "text"
          /\ Code(index) \notin {Eof, "[", "]", "*", "_"}
          /\ ~AtLabelStartImage(index)
    /\ LET end == DataEnd(index + 1) IN
       /\ events' = events \o <<Event("Enter", "Data", index),
                                Event("Exit", "Data", end)>>
       /\ index' = end
    /\ pc' = "text"
    /\ UNCHANGED <<bytes, definitions, label_start_stack,
                   label_start_list_loose, media_list, info, checkpoint, map,
                   resolvers, sequences, close, matches, calls,
                   tokenize_state, constructs, position,
                   slice>>

\* A label start as pushed on the stack.
LabelStart(enter, exit) ==
    [start |-> <<enter, exit>>, balanced |-> FALSE, inactive |-> FALSE]

\* label_start_link::start at `[`.
LabelStartLink ==
    /\ pc = "text"
    /\ Code(index) = "["
    /\ events' = events \o
           <<Event("Enter", "LabelLink", index),
             Event("Enter", "LabelMarker", index),
             Event("Exit", "LabelMarker", index + 1),
             Event("Exit", "LabelLink", index + 1)>>
    /\ label_start_stack' =
           Append(label_start_stack, LabelStart(Len(events), Len(events) + 3))
    /\ resolvers' = register_resolver_before(resolvers, "media")
    /\ index' = index + 1
    /\ UNCHANGED <<bytes, definitions, pc, label_start_list_loose, media_list,
                   info, checkpoint, map, sequences, close, matches, calls,
                   tokenize_state, constructs, position,
                   slice>>

\* label_start_image::start at `![`.
LabelStartImage ==
    /\ pc = "text"
    /\ AtLabelStartImage(index)
    /\ events' = events \o
           <<Event("Enter", "LabelImage", index),
             Event("Enter", "LabelImageMarker", index),
             Event("Exit", "LabelImageMarker", index + 1),
             Event("Enter", "LabelMarker", index + 1),
             Event("Exit", "LabelMarker", index + 2),
             Event("Exit", "LabelImage", index + 2)>>
    /\ label_start_stack' =
           Append(label_start_stack, LabelStart(Len(events), Len(events) + 5))
    /\ resolvers' = register_resolver_before(resolvers, "media")
    /\ index' = index + 2
    /\ UNCHANGED <<bytes, definitions, pc, label_start_list_loose, media_list,
                   info, checkpoint, map, sequences, close, matches, calls,
                   tokenize_state, constructs, position,
                   slice>>

----------------------------------------------------------------------------
(* Label end *)

\* Simple case folding of a byte.
Fold(b) == IF b = "A" THEN "a" ELSE b

RECURSIVE NormalizeFrom(_, _, _)
\* normalize_identifier over the rest s: acc is the result so far, pending
\* tells that whitespace was passed after a byte of the result.
NormalizeFrom(s, acc, pending) ==
    IF s = <<>> THEN acc
    ELSE IF Head(s) \in Whitespace
         THEN NormalizeFrom(Tail(s), acc, acc # <<>>)
         ELSE NormalizeFrom(Tail(s),
                  acc \o (IF pending THEN <<" ">> ELSE <<>>) \o <<Fold(Head(s))>>,
                  FALSE)

\* normalize_identifier: trim, collapse whitespace, fold case.
normalize_identifier(s) == NormalizeFrom(s, <<>>, FALSE)

\* serialize of the span start_index..end_index of the buffer.
serialize(start_index, end_index) == Slice(bytes, start_index, end_index)

RECURSIVE TopUnbalancedActive(_, _)
\* A slip: the scan of start passes over inactive label starts.
TopUnbalancedActive(stack, i) ==
    IF i = 0 THEN None
    ELSE IF ~stack[i].balanced /\ ~stack[i].inactive THEN i - 1
    ELSE TopUnbalancedActive(stack, i - 1)

RECURSIVE TopUnbalanced(_, _)
\* The scan of start: the topmost entry below position i (1-based, exclusive
\* from above) that is not balanced, as a 0-based index; None without one.
TopUnbalanced(stack, i) ==
    IF i = 0 THEN None
    ELSE IF ~stack[i].balanced THEN i - 1
    ELSE TopUnbalanced(stack, i - 1)

\* A slip: every label start on the stack becomes balanced.
MarkBalancedAll(stack, label_start_index) ==
    [i \in 1..Len(stack) |-> [stack[i] EXCEPT !.balanced = TRUE]]

\* The effect of nok on the stack: the label start becomes balanced.
MarkBalanced(stack, label_start_index) ==
    [stack EXCEPT ![label_start_index + 1].balanced = TRUE]

NoInfo == [label_start_index |-> None]

\* start, at `]`: no label start that is not balanced.
LabelEndStartNone ==
    /\ pc = "text"
    /\ Code(index) = "]"
    /\ TopUnbalanced(label_start_stack, Len(label_start_stack)) = None
    /\ pc' = "data"
    /\ UNCHANGED <<bytes, definitions, index, events, label_start_stack,
                   label_start_list_loose, media_list, info, checkpoint, map,
                   resolvers, sequences, close, matches, calls,
                   tokenize_state, constructs, position,
                   slice>>

\* start, at `]`: the label start found is inactive.
LabelEndStartInactive ==
    /\ pc = "text"
    /\ Code(index) = "]"
    /\ LET label_start_index ==
               TopUnbalanced(label_start_stack, Len(label_start_stack)) IN
       /\ label_start_index # None
       /\ At(label_start_stack, label_start_index).inactive
       /\ label_start_stack' = MarkBalanced(label_start_stack, label_start_index)
    /\ pc' = "data"
    /\ UNCHANGED <<bytes, definitions, index, events, label_start_list_loose,
                   media_list, info, checkpoint, map, resolvers, sequences,
                   close, matches, calls,
                   tokenize_state, constructs, position,
                   slice>>

\* start, at `]`: an eligible label start; the label end is emitted.
LabelEndStartFound ==
    /\ pc = "text"
    /\ Code(index) = "]"
    /\ LET label_start_index ==
               TopUnbalanced(label_start_stack, Len(label_start_stack)) IN
       /\ label_start_index # None
       /\ ~At(label_start_stack, label_start_index).inactive
       /\ LET label_start == At(label_start_stack, label_start_index)
              label_end_start == Len(events)
          IN info' =
               [label_start_index |-> label_start_index,
                media |->
                  [start |-> label_start.start,
                   end |-> <<label_end_start, label_end_start + 3>>,
                   id |-> normalize_identifier(serialize(
                            At(events, label_start.start[2]).point,
                            At(events, label_end_start - 1).point))]]
    /\ checkpoint' = [events_len |-> Len(events), index |-> index]
    /\ events' = events \o
           <<Event("Enter", "LabelEnd", index),
             Event("Enter", "LabelMarker", index),
             Event("Exit", "LabelMarker", index + 1),
             Event("Exit", "LabelEnd", index + 1)>>
    /\ index' = index + 1
    /\ pc' = "after"
    /\ UNCHANGED <<bytes, definitions, label_start_stack,
                   label_start_list_loose, media_list, map, resolvers,
                   sequences, close, matches, calls,
                   tokenize_state, constructs, position,
                   slice>>

\* start
LabelEndStart ==
    \/ LabelEndStartNone
    \/ LabelEndStartInactive
    \/ LabelEndStartFound

----------------------------------------------------------------------------
(* The attempts of label end: resource, full reference, collapsed reference *)

\* The outcome of an attempt: whether it ended in Ok, the events it added
\* to the tokenizer and, when Ok, the index it reached.
AttemptNok == [ok |-> FALSE, events |-> <<>>, index |-> None]
AttemptOk(evs, i) == [ok |-> TRUE, events |-> evs, index |-> i]
AttemptFailed(evs) == [ok |-> FALSE, events |-> evs, index |-> None]

\* Tokenizer::attempt on Nok: the events added since the attempt started are
\* dropped.
Rollback(evs, len) == SubSeq(evs, 1, len)

\* constant::RESOURCE_DESTINATION_BALANCE_MAX
RESOURCE_DESTINATION_BALANCE_MAX == 32

RECURSIVE RawDestinationEnd(_, _)
\* partial_destination, raw: the index where the destination that runs
\* through i ends, with `balance` parens open; None when it fails.
RawDestinationEnd(i, balance) ==
    LET c == Code(i) IN
    IF c = "("
    THEN IF balance >= RESOURCE_DESTINATION_BALANCE_MAX THEN None
         ELSE RawDestinationEnd(i + 1, balance + 1)
    ELSE IF c = ")"
    THEN IF balance = 0 THEN i ELSE RawDestinationEnd(i + 1, balance - 1)
    ELSE IF c = Eof \/ c \in Whitespace
    THEN IF balance = 0 THEN i ELSE None
    ELSE RawDestinationEnd(i + 1, balance)

\* resource_end at i, after the events evs of the resource so far.
resource_end(evs, i) ==
    IF Code(i) = ")"
    THEN AttemptOk(evs \o <<Event("Enter", "ResourceMarker", i),
                            Event("Exit", "ResourceMarker", i + 1),
                            Event("Exit", "Resource", i + 1)>>, i + 1)
    ELSE AttemptFailed(evs)

\* resource .. resource_end at `(`: the buffers of the model hold no
\* whitespace inside a resource, so every space_or_tab_eol attempt fails
\* and no title is reached.
resource(i) ==
    LET open == <<Event("Enter", "Resource", i),
                  Event("Enter", "ResourceMarker", i),
                  Event("Exit", "ResourceMarker", i + 1)>>
        from == i + 1
    IN IF Code(from) = ")" THEN resource_end(open, from)
       ELSE IF Code(from) = Eof \/ Code(from) \in Whitespace
       THEN AttemptFailed(open)
       ELSE LET end == RawDestinationEnd(from, 0) IN
            IF end = None
            THEN AttemptFailed(open \o
                     <<Event("Enter", "ResourceDestination", from),
                       Event("Enter", "ResourceDestinationRaw", from),
                       Event("Enter", "ResourceDestinationString", from)>>)
            ELSE resource_end(open \o
                     <<Event("Enter", "ResourceDestination", from),
                       Event("Enter", "ResourceDestinationRaw", from),
                       Event("Enter", "ResourceDestinationString", from),
                       Event("Exit", "ResourceDestinationString", end),
                       Event("Exit", "ResourceDestinationRaw", end),
                       Event("Exit", "ResourceDestination", end)>>, end)

RECURSIVE LabelStringEnd(_, _)
\* partial_label: the index of the `]` that ends the label string running
\* through i; None when the label fails (`[`, the end of the buffer, or no
\* byte that is not whitespace: `data` tells one was seen).
LabelStringEnd(i, data) ==
    LET c == Code(i) IN
    IF c = Eof \/ c = "[" THEN None
    ELSE IF c = "]" THEN (IF data THEN i ELSE None)
    ELSE LabelStringEnd(i + 1, data \/ c \notin Whitespace)

RECURSIVE ReferenceStringSpan(_, _, _)
\* The backward scan of full_reference_after from event index i: the points
\* of the last ReferenceString.
ReferenceStringSpan(evs, i, end) ==
    IF i = 0 THEN <<None, end>>
    ELSE LET event == At(evs, i - 1) IN
         IF event.name = "ReferenceString"
         THEN IF event.kind = "Exit"
              THEN ReferenceStringSpan(evs, i - 1, event.point)
              ELSE <<event.point, end>>
         ELSE ReferenceStringSpan(evs, i - 1, end)

\* A slip: the label of the media is looked up, not the reference's own.
full_reference_after_first(evs) == info.media.id \in definitions

\* full_reference_after: whether the reference's own label is defined.
full_reference_after(evs) ==
    LET span == ReferenceStringSpan(evs, Len(evs) - 1, None)
    IN normalize_identifier(serialize(span[1], span[2])) \in definitions

\* full_reference at `[`, after the events `before` of the tokenizer.
full_reference(before, i) ==
    LET end == LabelStringEnd(i + 1, FALSE)
        evs == <<Event("Enter", "Reference", i),
                 Event("Enter", "ReferenceMarker", i),
                 Event("Exit", "ReferenceMarker", i + 1),
                 Event("Enter", "ReferenceString", i + 1),
                 Event("Exit", "ReferenceString", end),
                 Event("Enter", "ReferenceMarker", end),
                 Event("Exit", "ReferenceMarker", end + 1),
                 Event("Exit", "Reference", end + 1)>>
    IN IF end = None THEN AttemptFailed(SubSeq(evs, 1, 3))
       ELSE IF full_reference_after(before \o evs) THEN AttemptOk(evs, end + 1)
       ELSE AttemptFailed(evs)

\* collapsed_reference and collapsed_reference_open at `[`.
collapsed_reference(i) ==
    IF Code(i) = "[" /\ Code(i + 1) = "]"
    THEN AttemptOk(<<Event("Enter", "Reference", i),
                     Event("Enter", "ReferenceMarker", i),
                     Event("Exit", "ReferenceMarker", i + 1),
                     Event("Enter", "ReferenceMarker", i + 1),
                     Event("Exit", "ReferenceMarker", i + 2),
                     Event("Exit", "Reference", i + 2)>>, i + 2)
    ELSE IF Code(i) = "["
    THEN AttemptFailed(<<Event("Enter", "Reference", i),
                         Event("Enter", "ReferenceMarker", i),
                         Event("Exit", "ReferenceMarker", i + 1)>>)
    ELSE AttemptNok

\* Whether the label of the proposed media is defined.
Defined == info.media.id \in definitions

\* The tokenizer after an attempt: its events and index when it succeeded,
\* the tokenizer as it was when it failed.
AfterAttempt(r, next_pc) ==
    /\ events' = IF r.ok THEN events \o r.events
                 ELSE Rollback(events \o r.events, Len(events))
    /\ index' = IF r.ok THEN r.index ELSE index
    /\ pc' = next_pc
    /\ UNCHANGED <<bytes, definitions, label_start_stack,
                   label_start_list_loose, media_list, info, checkpoint, map,
                   resolvers, sequences, close, matches, calls,
                   tokenize_state, constructs, position,
                   slice>>

\* A slip: a failed resource ends the label end whether or not the label
\* is defined.
AfterResourceOnly ==
    /\ pc = "after"
    /\ Code(index) = "("
    /\ LET r == resource(index) IN
       AfterAttempt(r, IF r.ok THEN "ok" ELSE "nok")

\* after, at `(`: a resource, or a shortcut reference when defined.
AfterResource ==
    /\ pc = "after"
    /\ Code(index) = "("
    /\ LET r == resource(index) IN
       AfterAttempt(r, IF r.ok \/ Defined THEN "ok" ELSE "nok")

\* after, at `[`: a full reference, else perhaps a collapsed one.
AfterReference ==
    /\ pc = "after"
    /\ Code(index) = "["
    /\ LET r == full_reference(events, index) IN
       AfterAttempt(r, IF r.ok THEN "ok"
                       ELSE IF Defined THEN "reference_not_full" ELSE "nok")

\* after, at another byte: a shortcut reference when defined.
AfterShortcut ==
    /\ pc = "after"
    /\ Code(index) \notin {"(", "["}
    /\ AfterAttempt(AttemptNok, IF Defined THEN "ok" ELSE "nok")

\* after
After == AfterResource \/ AfterReference \/ AfterShortcut

\* reference_not_full
ReferenceNotFull ==
    /\ pc = "reference_not_full"
    /\ LET r == collapsed_reference(index) IN
       AfterAttempt(r, IF r.ok THEN "ok" ELSE "nok")

\* A slip: the sweep changes nothing on the stack.
InactivateNone(stack) == stack

\* The sweep of ok: every LabelLink start left on the stack becomes inactive.
Inactivate(stack) ==
    [i \in 1..Len(stack) |->
        IF At(events, stack[i].start[1]).name = "LabelLink"
        THEN [stack[i] EXCEPT !.inactive = TRUE]
        ELSE stack[i]]

\* A slip: the sweep runs whatever label start matched.
StackAfterOkSweepsAlways(stack, is_link) == Inactivate(stack)

\* The label starts ok leaves on the stack, given whether a link matched.
StackAfterOk(stack, is_link) == IF is_link THEN Inactivate(stack) ELSE stack

\* A slip: the label start matched is not taken out of what is left, and
\* goes to the loose list as well.
OkKeepsStartLoose ==
    /\ pc = "ok"
    /\ LET below == SubSeq(label_start_stack, 1, info.label_start_index)
           left == SubSeq(label_start_stack, info.label_start_index + 1,
                          Len(label_start_stack))
           is_link == At(events, info.media.start[1]).name = "LabelLink"
       IN /\ label_start_list_loose' = label_start_list_loose \o left
          /\ label_start_stack' = StackAfterOk(below, is_link)
    /\ media_list' = Append(media_list,
           [info.media EXCEPT !.end = <<@[1], Len(events) - 1>>])
    /\ resolvers' = register_resolver_before(resolvers, "media")
    /\ info' = NoInfo
    /\ pc' = "text"
    /\ UNCHANGED <<bytes, definitions, index, events, checkpoint, map,
                   sequences, close, matches, calls,
                   tokenize_state, constructs, position,
                   slice>>

\* ok
Ok ==
    /\ pc = "ok"
    /\ LET below == SubSeq(label_start_stack, 1, info.label_start_index)
           left == SubSeq(label_start_stack, info.label_start_index + 2,
                          Len(label_start_stack))
           is_link == At(events, info.media.start[1]).name = "LabelLink"
       IN /\ label_start_list_loose' = label_start_list_loose \o left
          /\ label_start_stack' = StackAfterOk(below, is_link)
    /\ media_list' = Append(media_list,
           [info.media EXCEPT !.end = <<@[1], Len(events) - 1>>])
    /\ resolvers' = register_resolver_before(resolvers, "media")
    /\ info' = NoInfo
    /\ pc' = "text"
    /\ UNCHANGED <<bytes, definitions, index, events, checkpoint, map,
                   sequences, close, matches, calls,
                   tokenize_state, constructs, position,
                   slice>>

\* nok: the label start becomes balanced and the construct returns Nok.
Nok ==
    /\ pc = "nok"
    /\ label_start_stack' = MarkBalanced(label_start_stack, info.label_start_index)
    /\ info' = NoInfo
    /\ pc' = "restore"
    /\ UNCHANGED <<bytes, definitions, index, events, label_start_list_loose,
                   media_list, checkpoint, map, resolvers, sequences, close,
                   matches, calls,
                   tokenize_state, constructs, position,
                   slice>>

\* The attempt around label end on Nok: the events and the index go back to
\* the checkpoint, and the text content goes on with data.
Restore ==
    /\ pc = "restore"
    /\ events' = SubSeq(events, 1, checkpoint.events_len)
    /\ index' = checkpoint.index
    /\ pc' = "data"
    /\ UNCHANGED <<bytes, definitions, label_start_stack,
                   label_start_list_loose, media_list, info, checkpoint, map,
                   resolvers, sequences, close, matches, calls,
                   tokenize_state, constructs, position,
                   slice>>

----------------------------------------------------------------------------
(* resolve_media *)

RECURSIVE MarkLoose(_, _, _)
\* The first loop of resolve_media: each label start left becomes Data.
MarkLoose(m, left, i) ==
    IF i > Len(left) THEN m
    ELSE LET data_enter_index == left[i].start[1]
             data_exit_index == left[i].start[2]
         IN MarkLoose(
                MapAdd(m, data_enter_index,
                       data_exit_index - data_enter_index + 1,
                       <<Event("Enter", "Data", At(events, data_enter_index).point),
                         Event("Exit", "Data", At(events, data_exit_index).point)>>),
                left, i + 1)

\* The name of the group enter resolve_media inserts.
GroupEnterName(group_enter_event) ==
    IF group_enter_event.name = "LabelLink" THEN "Link" ELSE "Image"

\* The name of the group exit resolve_media inserts.
GroupExitName(group_enter_event) == "Link"

\* A slip: the LabelText events are inserted for an empty label too.
GroupOneTextAlways(m, media) ==
    LET group_enter_index == media.start[1]
        group_enter_event == At(events, group_enter_index)
        text_enter_index ==
            media.start[1] +
                (IF group_enter_event.name = "LabelLink" THEN 4 ELSE 6)
        text_exit_index == media.end[1]
        label_exit_index == media.end[1] + 3
        group_end_index == media.end[2]
        m1 == MapAdd(m, group_enter_index, 0,
                  <<Event("Enter", GroupEnterName(group_enter_event),
                          group_enter_event.point),
                    Event("Enter", "Label", group_enter_event.point)>>)
        m2 == IF TRUE
              THEN MapAdd(
                     MapAdd(m1, text_enter_index, 0,
                        <<Event("Enter", "LabelText",
                                At(events, text_enter_index).point)>>),
                     text_exit_index, 0,
                     <<Event("Exit", "LabelText",
                             At(events, text_exit_index).point)>>)
              ELSE m1
        m3 == MapAdd(m2, label_exit_index + 1, 0,
                  <<Event("Exit", "Label", At(events, label_exit_index).point)>>)
    IN MapAdd(m3, group_end_index + 1, 0,
           <<Event("Exit", GroupExitName(group_enter_event),
                   At(events, group_end_index).point)>>)

\* The edits of resolve_media for one media.
GroupOne(m, media) ==
    LET group_enter_index == media.start[1]
        group_enter_event == At(events, group_enter_index)
        text_enter_index ==
            media.start[1] +
                (IF group_enter_event.name = "LabelLink" THEN 4 ELSE 6)
        text_exit_index == media.end[1]
        label_exit_index == media.end[1] + 3
        group_end_index == media.end[2]
        m1 == MapAdd(m, group_enter_index, 0,
                  <<Event("Enter", GroupEnterName(group_enter_event),
                          group_enter_event.point),
                    Event("Enter", "Label", group_enter_event.point)>>)
        m2 == IF text_enter_index # text_exit_index
              THEN MapAdd(
                     MapAdd(m1, text_enter_index, 0,
                        <<Event("Enter", "LabelText",
                                At(events, text_enter_index).point)>>),
                     text_exit_index, 0,
                     <<Event("Exit", "LabelText",
                             At(events, text_exit_index).point)>>)
              ELSE m1
        m3 == MapAdd(m2, label_exit_index + 1, 0,
                  <<Event("Exit", "Label", At(events, label_exit_index).point)>>)
    IN MapAdd(m3, group_end_index + 1, 0,
           <<Event("Exit", GroupExitName(group_enter_event),
                   At(events, group_end_index).point)>>)

RECURSIVE GroupMedia(_, _, _)
\* The second loop of resolve_media: the grouping events of every media.
GroupMedia(m, media, i) ==
    IF i > Len(media) THEN m
    ELSE GroupMedia(GroupOne(m, media[i]), media, i + 1)

\* The edits resolve_media records.
MediaEdits ==
    GroupMedia(MarkLoose(map, label_start_list_loose \o label_start_stack, 1),
               media_list, 1)

\* The driver at the end of the content: the resolver `name` runs next.
RunsNext(name) ==
    /\ \/ pc = "text" /\ Code(index) = Eof
       \/ pc = "resolve"
    /\ resolvers # <<>>
    /\ Head(resolvers) = name

\* The driver after a resolver: the next resolver, or the end.
AfterResolver == IF Tail(resolvers) = <<>> THEN "done" ELSE "resolve"

\* resolve_media: on a consumed map the assertion of add_impl or of consume
\* fails; otherwise the vector consume builds is the event log from here on.
ResolveMedia ==
    /\ RunsNext("media")
    /\ IF map.consumed
       THEN /\ pc' = "panic"
            /\ UNCHANGED <<events, map>>
       ELSE /\ events' = consume(MediaEdits, events)
            /\ map' = [MediaEdits EXCEPT !.consumed = TRUE]
            /\ pc' = AfterResolver
    /\ label_start_list_loose' = <<>>
    /\ label_start_stack' = <<>>
    /\ media_list' = <<>>
    /\ resolvers' = Tail(resolvers)
    /\ UNCHANGED <<bytes, definitions, index, info, checkpoint, sequences,
                   close, matches, calls,
                   tokenize_state, constructs, position,
                   slice>>

\* The driver at the end of the content with no resolver registered.
Finish ==
    /\ pc = "text"
    /\ Code(index) = Eof
    /\ resolvers = <<>>
    /\ pc' = "done"
    /\ UNCHANGED <<bytes, definitions, index, events, label_start_stack,
                   label_start_list_loose, media_list, info, checkpoint, map,
                   resolvers, sequences, close, matches, calls,
                   tokenize_state, constructs, position,
                   slice>>

----------------------------------------------------------------------------
(* Specification of label starts, label ends and the media resolver *)

\* The most pieces a buffer of SpecMedia is made of.
MaxMediaPieces == 5

\* The pieces the buffers of SpecMedia are made of.
MediaPieces ==
    {<<"a">>, <<"[">>, <<"!", "[">>, <<"]">>, <<"(", "a", ")">>, <<"(">>}

\* The buffers of SpecMedia.
MediaBuffers ==
    {Flatten(s) : s \in UNION {[1..n -> MediaPieces] : n \in 0..MaxMediaPieces}}

\* The definition sets of SpecMedia.
DefinitionSets ==
    {{<<"a">>},
     {<<"a">>, <<"[", "a", "]">>, <<"!", "[", "a", "]">>}}

\* The tokenizer before the first byte.
TokenizerInit ==
    /\ pc = "text"
    /\ index = 0
    /\ events = <<>>
    /\ label_start_stack = <<>>
    /\ label_start_list_loose = <<>>
    /\ media_list = <<>>
    /\ info = NoInfo
    /\ checkpoint = [events_len |-> 0, index |-> 0]
    /\ map = EditMapNew
    /\ resolvers = <<>>
    /\ sequences = <<>>
    /\ close = 0
    /\ matches = <<>>
    /\ calls = <<>>
    /\ tokenize_state = [marker |-> Nul]
    /\ constructs = AllConstructs
    /\ position = NoPosition
    /\ slice = NoSlice

InitMedia ==
    /\ bytes \in MediaBuffers
    /\ definitions \in DefinitionSets
    /\ TokenizerInit

NextMedia ==
    \/ TextData
    \/ LabelStartLink
    \/ LabelStartImage
    \/ LabelEndStart
    \/ After
    \/ ReferenceNotFull
    \/ Ok
    \/ Nok
    \/ Restore
    \/ ResolveMedia
    \/ Finish

SpecMedia == InitMedia /\ [][NextMedia]_vars

\* The most pieces in a buffer of SpecReference.
MaxReferencePieces == 4

\* The pieces the buffers of SpecReference are made of: whole labels, so
\* that a label end is followed by a reference.
ReferencePieces ==
    {<<"[", "a", "]">>, <<"[", "A", "]">>, <<"[", "b", "]">>,
     <<"!", "[", "a", "]">>, <<"[", "]">>, <<"[">>, <<"]">>, <<"(">>}

\* The buffers of SpecReference.
ReferenceBuffers ==
    {Flatten(s) :
        s \in UNION {[1..n -> ReferencePieces] : n \in 0..MaxReferencePieces}}

\* The definition sets of SpecReference: identifiers as normalized.
ReferenceDefinitionSets == SUBSET {<<"a">>, <<"b">>}

InitReference ==
    /\ bytes \in ReferenceBuffers
    /\ definitions \in ReferenceDefinitionSets
    /\ TokenizerInit

SpecReference == InitReference /\ [][NextMedia]_vars

----------------------------------------------------------------------------
(* Attention: resolve *)

\* unicode::PUNCTUATION, the part of it the buffers of the model use.
PUNCTUATION == {"*", "_", "[", "]", "!", "(", ")", "."}

\* The None of an empty window.
NoChar == "none"

\* A slip: the end of the buffer is not seen as whitespace.
classify_character_eof_other(char) ==
    IF char = NoChar THEN "Other"
    ELSE IF char \in Whitespace THEN "Whitespace"
    ELSE IF char \in PUNCTUATION THEN "Punctuation"
    ELSE "Other"

\* classify_character
classify_character(char) ==
    IF char = NoChar THEN "Whitespace"
    ELSE IF char \in Whitespace THEN "Whitespace"
    ELSE IF char \in PUNCTUATION THEN "Punctuation"
    ELSE "Other"

\* The start of the window read before a sequence that starts at before_end.
BeforeStart(before_end) == IF before_end < 4 THEN 0 ELSE before_end - 4

\* The end of the window read after a sequence that ends at after_start.
AfterEnd(after_start) ==
    IF after_start + 4 > Len(bytes) THEN Len(bytes) ELSE after_start + 4

\* char_before: the last character of the window before the sequence (the
\* bytes of the model are ASCII, one character each).
CharBefore(before_end) ==
    LET string_before == Slice(bytes, BeforeStart(before_end), before_end)
    IN IF string_before = <<>> THEN NoChar
       ELSE string_before[Len(string_before)]

\* char_after: the first character of the window after the sequence.
CharAfter(after_start) ==
    LET string_after == Slice(bytes, after_start, AfterEnd(after_start))
    IN IF string_after = <<>> THEN NoChar ELSE string_after[1]

\* Whether a sequence between characters of these classes can open.
CanOpen(before, after) ==
    after = "Other" \/ (after = "Punctuation" /\ before # "Other")

\* A slip: a sequence after punctuation never closes.
CanCloseAfterOtherOnly(before, after) == before = "Other"

\* Whether a sequence between characters of these classes can close.
CanClose(before, after) ==
    before = "Other" \/ (before = "Punctuation" /\ after # "Other")

\* A slip: underscores are treated like asterisks.
StoredOpenAsAsterisk(marker, before, after) == CanOpen(before, after)

\* The open flag stored in the Sequence.
StoredOpen(marker, before, after) ==
    IF marker = "*" THEN CanOpen(before, after)
    ELSE CanOpen(before, after)
             /\ (before # "Other" \/ ~CanClose(before, after))

\* The close flag stored in the Sequence.
StoredClose(marker, before, after) ==
    IF marker = "*" THEN CanClose(before, after)
    ELSE CanClose(before, after)
             /\ (after # "Other" \/ ~CanOpen(before, after))

\* The Sequence pushed for the AttentionSequence whose Enter is event start.
SequenceAt(evs, start, balance) ==
    LET enter == At(evs, start)
        exit == At(evs, start + 1)
        marker == At(bytes, enter.point)
        before == classify_character(CharBefore(enter.point))
        after == classify_character(CharAfter(exit.point))
    IN [marker |-> marker,
        balance |-> balance,
        event_index |-> start,
        start_point |-> enter.point,
        end_point |-> exit.point,
        size |-> exit.point - enter.point,
        open |-> StoredOpen(marker, before, after),
        close |-> StoredClose(marker, before, after)]

RECURSIVE FindSequences(_, _, _, _)
\* The first loop of resolve, from event start on with the balance so far.
FindSequences(evs, start, balance, acc) ==
    IF start >= Len(evs) THEN acc
    ELSE LET enter == At(evs, start) IN
         IF enter.kind = "Enter"
         THEN IF enter.name = "AttentionSequence"
              THEN FindSequences(evs, start + 1, balance + 1,
                       Append(acc, SequenceAt(evs, start, balance + 1)))
              ELSE FindSequences(evs, start + 1, balance + 1, acc)
         ELSE FindSequences(evs, start + 1, balance - 1, acc)

\* The rule of three: whether this opener is passed over for this closer.
Skip(sequence_open, sequence_close) ==
    /\ (sequence_open.close \/ sequence_close.open)
    /\ sequence_close.size % 3 # 0
    /\ (sequence_open.size + sequence_close.size) % 3 = 0

\* Whether a sequence is looked at as the opener of a closer.
CanPair(sequence_open, sequence_close) ==
    /\ sequence_open.open
    /\ sequence_close.marker = sequence_open.marker
    /\ sequence_close.balance = sequence_open.balance

RECURSIVE FindOpenerStopsAtSkip(_, _, _)
\* A slip: a candidate the rule of three passes over ends the walk back.
FindOpenerStopsAtSkip(seqs, c, open) ==
    IF open = 0 THEN None
    ELSE LET sequence_open == At(seqs, open - 1)
             sequence_close == At(seqs, c)
         IN IF CanPair(sequence_open, sequence_close)
            THEN IF Skip(sequence_open, sequence_close) THEN None ELSE open - 1
            ELSE FindOpenerStopsAtSkip(seqs, c, open - 1)

RECURSIVE FindOpener(_, _, _)
\* The walk back from closer c (0-based): open is the index the walk is at;
\* the index of the opener matched, or None.
FindOpener(seqs, c, open) ==
    IF open = 0 THEN None
    ELSE LET sequence_open == At(seqs, open - 1)
             sequence_close == At(seqs, c)
         IN IF CanPair(sequence_open, sequence_close)
               /\ ~Skip(sequence_open, sequence_close)
            THEN open - 1
            ELSE FindOpener(seqs, c, open - 1)

\* A slip: a match takes no marker.
TakeNothing(sequence_open, sequence_close) == 0

\* A slip: take looks at the size of the opener only.
TakeByOpener(sequence_open, sequence_close) ==
    IF sequence_open.size > 1 THEN 2 ELSE 1

\* take: the number of markers used from both sequences.
Take(sequence_open, sequence_close) ==
    IF sequence_open.size > 1 /\ sequence_close.size > 1 THEN 2 ELSE 1

\* A slip: the sequences between opener and closer stay as they are.
CloseBetweenNot(seqs, open, c) == seqs

\* The sequences strictly between opener and closer can open no more.
CloseBetween(seqs, open, c) ==
    [i \in 1..Len(seqs) |->
        IF open + 1 < i /\ i < c + 1
        THEN [seqs[i] EXCEPT !.open = FALSE]
        ELSE seqs[i]]

\* Vec::remove
Remove(s, i) == SubSeq(s, 1, i) \o SubSeq(s, i + 2, Len(s))

\* The names of the events of a match.
GroupName(take) == IF take = 1 THEN "Emphasis" ELSE "Strong"
SequenceName(take) == IF take = 1 THEN "EmphasisSequence" ELSE "StrongSequence"
TextName(take) == IF take = 1 THEN "EmphasisText" ELSE "StrongText"

\* resolve, entered: the first loop collects the sequences.
ResolveFind ==
    /\ RunsNext("attention")
    /\ pc \in {"text", "resolve"}
    /\ sequences' = FindSequences(events, 0, 0, <<>>)
    /\ close' = 0
    /\ pc' = "pair"
    /\ UNCHANGED <<bytes, definitions, index, events, label_start_stack,
                   label_start_list_loose, media_list, info, checkpoint, map,
                   resolvers, matches, calls,
                   tokenize_state, constructs, position,
                   slice>>

\* The opener the pairing loop finds for the sequence at `close`, or None.
OpenerNow ==
    IF At(sequences, close).close
    THEN FindOpener(sequences, close, close)
    ELSE None

\* One turn of the pairing loop in which no opener is found.
PairAdvance ==
    /\ pc = "pair"
    /\ close < Len(sequences)
    /\ OpenerNow = None
    /\ close' = close + 1
    /\ UNCHANGED <<bytes, definitions, pc, index, events, label_start_stack,
                   label_start_list_loose, media_list, info, checkpoint, map,
                   resolvers, sequences, matches, calls,
                   tokenize_state, constructs, position,
                   slice>>

\* A slip: the Enter of a closer that keeps markers is not moved forward.
PairMatchNoShift ==
    /\ pc = "pair"
    /\ close < Len(sequences)
    /\ OpenerNow # None
    /\ LET open == OpenerNow
           take == Take(At(sequences, open), At(sequences, close))
           between == CloseBetween(sequences, open, close)
           sequence_close == At(between, close)
           close_event_index == sequence_close.event_index
           seq_close_enter == sequence_close.start_point
           seq_close_exit == sequence_close.start_point + take
           close_left == sequence_close.size - take
           closed == IF close_left = 0
                     THEN Remove(between, close)
                     ELSE [between EXCEPT ![close + 1].size = close_left,
                                          ![close + 1].start_point = seq_close_exit]
           sequence_open == At(closed, open)
           open_event_index == sequence_open.event_index
           seq_open_exit == sequence_open.end_point
           seq_open_enter == sequence_open.end_point - take
           open_left == sequence_open.size - take
           opened == IF open_left = 0
                     THEN Remove(closed, open)
                     ELSE [closed EXCEPT ![open + 1].size = open_left,
                                         ![open + 1].end_point = seq_open_enter]
           events1 == events
           events2 == IF open_left = 0 THEN events1
                      ELSE [events1 EXCEPT ![open_event_index + 2].point =
                                               seq_open_enter]
           map1 == IF close_left = 0
                   THEN MapAdd(map, close_event_index, 2, <<>>) ELSE map
           map2 == IF open_left = 0
                   THEN MapAdd(map1, open_event_index, 2, <<>>) ELSE map1
           map3 == MapAddBefore(map2, open_event_index + 2, 0,
                       <<Event("Enter", GroupName(take), seq_open_enter),
                         Event("Enter", SequenceName(take), seq_open_enter),
                         Event("Exit", SequenceName(take), seq_open_exit),
                         Event("Enter", TextName(take), seq_open_exit)>>)
           map4 == MapAdd(map3, close_event_index, 0,
                       <<Event("Exit", TextName(take), seq_close_enter),
                         Event("Enter", SequenceName(take), seq_close_enter),
                         Event("Exit", SequenceName(take), seq_close_exit),
                         Event("Exit", GroupName(take), seq_close_exit)>>)
       IN IF map.consumed
          THEN /\ pc' = "panic"
               /\ UNCHANGED <<events, map, sequences, close, matches>>
          ELSE /\ sequences' = opened
               /\ events' = events2
               /\ map' = map4
               /\ close' = (close + 1) - 1 - (IF open_left = 0 THEN 1 ELSE 0)
               /\ matches' = Append(matches,
                      [open |-> open_event_index, close |-> close_event_index,
                       take |-> take])
               /\ pc' = pc
    /\ UNCHANGED <<bytes, definitions, index, label_start_stack,
                   label_start_list_loose, media_list, info, checkpoint,
                   resolvers, calls,
                   tokenize_state, constructs, position,
                   slice>>

\* A slip: the loop index is not moved back when the opener is removed.
PairMatchNoStepBack ==
    /\ pc = "pair"
    /\ close < Len(sequences)
    /\ OpenerNow # None
    /\ LET open == OpenerNow
           take == Take(At(sequences, open), At(sequences, close))
           between == CloseBetween(sequences, open, close)
           sequence_close == At(between, close)
           close_event_index == sequence_close.event_index
           seq_close_enter == sequence_close.start_point
           seq_close_exit == sequence_close.start_point + take
           close_left == sequence_close.size - take
           closed == IF close_left = 0
                     THEN Remove(between, close)
                     ELSE [between EXCEPT ![close + 1].size = close_left,
                                          ![close + 1].start_point = seq_close_exit]
           sequence_open == At(closed, open)
           open_event_index == sequence_open.event_index
           seq_open_exit == sequence_open.end_point
           seq_open_enter == sequence_open.end_point - take
           open_left == sequence_open.size - take
           opened == IF open_left = 0
                     THEN Remove(closed, open)
                     ELSE [closed EXCEPT ![open + 1].size = open_left,
                                         ![open + 1].end_point = seq_open_enter]
           events1 == IF close_left = 0 THEN events
                      ELSE [events EXCEPT ![close_event_index + 1].point =
                                              seq_close_exit]
           events2 == IF open_left = 0 THEN events1
                      ELSE [events1 EXCEPT ![open_event_index + 2].point =
                                               seq_open_enter]
           map1 == IF close_left = 0
                   THEN MapAdd(map, close_event_index, 2, <<>>) ELSE map
           map2 == IF open_left = 0
                   THEN MapAdd(map1, open_event_index, 2, <<>>) ELSE map1
           map3 == MapAddBefore(map2, open_event_index + 2, 0,
                       <<Event("Enter", GroupName(take), seq_open_enter),
                         Event("Enter", SequenceName(take), seq_open_enter),
                         Event("Exit", SequenceName(take), seq_open_exit),
                         Event("Enter", TextName(take), seq_open_exit)>>)
           map4 == MapAdd(map3, close_event_index, 0,
                       <<Event("Exit", TextName(take), seq_close_enter),
                         Event("Enter", SequenceName(take), seq_close_enter),
                         Event("Exit", SequenceName(take), seq_close_exit),
                         Event("Exit", GroupName(take), seq_close_exit)>>)
       IN IF map.consumed
          THEN /\ pc' = "panic"
               /\ UNCHANGED <<events, map, sequences, close, matches>>
          ELSE /\ sequences' = opened
               /\ events' = events2
               /\ map' = map4
               /\ close' = (close + 1) - 1
               /\ matches' = Append(matches,
                      [open |-> open_event_index, close |-> close_event_index,
                       take |-> take])
               /\ pc' = pc
    /\ UNCHANGED <<bytes, definitions, index, label_start_stack,
                   label_start_list_loose, media_list, info, checkpoint,
                   resolvers, calls,
                   tokenize_state, constructs, position,
                   slice>>

\* One turn of the pairing loop in which an opener is matched.
PairMatch ==
    /\ pc = "pair"
    /\ close < Len(sequences)
    /\ OpenerNow # None
    /\ LET open == OpenerNow
           take == Take(At(sequences, open), At(sequences, close))
           between == CloseBetween(sequences, open, close)
           sequence_close == At(between, close)
           close_event_index == sequence_close.event_index
           seq_close_enter == sequence_close.start_point
           seq_close_exit == sequence_close.start_point + take
           close_left == sequence_close.size - take
           closed == IF close_left = 0
                     THEN Remove(between, close)
                     ELSE [between EXCEPT ![close + 1].size = close_left,
                                          ![close + 1].start_point = seq_close_exit]
           sequence_open == At(closed, open)
           open_event_index == sequence_open.event_index
           seq_open_exit == sequence_open.end_point
           seq_open_enter == sequence_open.end_point - take
           open_left == sequence_open.size - take
           opened == IF open_left = 0
                     THEN Remove(closed, open)
                     ELSE [closed EXCEPT ![open + 1].size = open_left,
                                         ![open + 1].end_point = seq_open_enter]
           events1 == IF close_left = 0 THEN events
                      ELSE [events EXCEPT ![close_event_index + 1].point =
                                              seq_close_exit]
           events2 == IF open_left = 0 THEN events1
                      ELSE [events1 EXCEPT ![open_event_index + 2].point =
                                               seq_open_enter]
           map1 == IF close_left = 0
                   THEN MapAdd(map, close_event_index, 2, <<>>) ELSE map
           map2 == IF open_left = 0
                   THEN MapAdd(map1, open_event_index, 2, <<>>) ELSE map1
           map3 == MapAddBefore(map2, open_event_index + 2, 0,
                       <<Event("Enter", GroupName(take), seq_open_enter),
                         Event("Enter", SequenceName(take), seq_open_enter),
                         Event("Exit", SequenceName(take), seq_open_exit),
                         Event("Enter", TextName(take), seq_open_exit)>>)
           map4 == MapAdd(map3, close_event_index, 0,
                       <<Event("Exit", TextName(take), seq_close_enter),
                         Event("Enter", SequenceName(take), seq_close_enter),
                         Event("Exit", SequenceName(take), seq_close_exit),
                         Event("Exit", GroupName(take), seq_close_exit)>>)
       IN IF map.consumed
          THEN /\ pc' = "panic"
               /\ UNCHANGED <<events, map, sequences, close, matches>>
          ELSE /\ sequences' = opened
               /\ events' = events2
               /\ map' = map4
               /\ close' = (close + 1) - 1 - (IF open_left = 0 THEN 1 ELSE 0)
               /\ matches' = Append(matches,
                      [open |-> open_event_index, close |-> close_event_index,
                       take |-> take])
               /\ pc' = pc
    /\ UNCHANGED <<bytes, definitions, index, label_start_stack,
                   label_start_list_loose, media_list, info, checkpoint,
                   resolvers, calls,
                   tokenize_state, constructs, position,
                   slice>>

\* A slip: only the Enter of a sequence left becomes Data.
MarkDataEnterOnly(evs, seqs) ==
    [i \in 1..Len(evs) |->
        IF \E k \in 1..Len(seqs) : i - 1 = seqs[k].event_index
        THEN [evs[i] EXCEPT !.name = "Data"]
        ELSE evs[i]]

\* The last loop of resolve: the events of the sequences left become Data.
MarkData(evs, seqs) ==
    [i \in 1..Len(evs) |->
        IF \E k \in 1..Len(seqs) :
               i - 1 \in {seqs[k].event_index, seqs[k].event_index + 1}
        THEN [evs[i] EXCEPT !.name = "Data"]
        ELSE evs[i]]

\* resolve, after the pairing loop: the sequences left become Data and the
\* map is consumed; the vector consume builds is the event log from here on.
ResolveFinish ==
    /\ pc = "pair"
    /\ close >= Len(sequences)
    /\ IF map.consumed
       THEN /\ pc' = "panic"
            /\ UNCHANGED <<events, map>>
       ELSE /\ events' = consume(map, MarkData(events, sequences))
            /\ map' = [map EXCEPT !.consumed = TRUE]
            /\ pc' = AfterResolver
    /\ resolvers' = Tail(resolvers)
    /\ UNCHANGED <<bytes, definitions, index, label_start_stack,
                   label_start_list_loose, media_list, info, checkpoint,
                   sequences, close, matches, calls,
                   tokenize_state, constructs, position,
                   slice>>

----------------------------------------------------------------------------
(* Specification of the attention resolver *)

\* The longest buffer of SpecAttention.
MaxAttentionBytes == 7

\* The bytes the buffers of SpecAttention are made of: text, whitespace,
\* the two markers, and the brackets of a link.
AttentionBytes == {"a", " ", "*", "_", "[", "]"}

RECURSIVE Depth(_, _)
\* The number of brackets the first n bytes of bs leave open.
Depth(bs, n) ==
    IF n = 0 THEN 0
    ELSE Depth(bs, n - 1)
            + (IF bs[n] = "[" THEN 1 ELSE IF bs[n] = "]" THEN 0 - 1 ELSE 0)

\* Whether the bytes bs make a buffer of SpecAttention: every bracket is
\* one of a link (a shortcut reference to a definition, so its label is not
\* blank and no `[` follows its `]`), links do not nest, and there is a
\* marker.
WellFormedText(bs) ==
    /\ \A i \in 1..Len(bs) :
          /\ bs[i] = "[" => /\ Depth(bs, i - 1) = 0
                            /\ i > 1 => bs[i - 1] # "]"
          /\ bs[i] = "]" => /\ Depth(bs, i - 1) = 1
                            /\ {j \in 1..(i - 1) :
                                  /\ bs[j] \notin Whitespace \cup {"[", "]"}
                                  /\ \A k \in j..i : bs[k] # "["} # {}
    /\ Depth(bs, Len(bs)) = 0
    /\ {i \in 1..Len(bs) : bs[i] \in {"*", "_"}} # {}

RECURSIVE SequenceEnd(_, _, _)
\* attention::inside: the index where the run of marker that holds byte
\* i - 1 of bs ends.
SequenceEnd(bs, marker, i) ==
    IF i < Len(bs) /\ At(bs, i) = marker
    THEN SequenceEnd(bs, marker, i + 1) ELSE i

RECURSIVE TextEnd(_, _)
\* The data construct on bs: the index where data that holds byte i - 1 ends.
TextEnd(bs, i) ==
    IF i >= Len(bs) \/ At(bs, i) \in TextMarkers THEN i ELSE TextEnd(bs, i + 1)

\* The events of a link's label start at point p, as resolve_media leaves
\* them, up to the start of the label text.
LinkOpenEvents(p) ==
    <<Event("Enter", "Link", p), Event("Enter", "Label", p),
      Event("Enter", "LabelLink", p), Event("Enter", "LabelMarker", p),
      Event("Exit", "LabelMarker", p + 1), Event("Exit", "LabelLink", p + 1),
      Event("Enter", "LabelText", p + 1)>>

\* The events of a shortcut reference's label end at point p.
LinkCloseEvents(p) ==
    <<Event("Exit", "LabelText", p),
      Event("Enter", "LabelEnd", p), Event("Enter", "LabelMarker", p),
      Event("Exit", "LabelMarker", p + 1), Event("Exit", "LabelEnd", p + 1),
      Event("Exit", "Label", p + 1), Event("Exit", "Link", p + 1)>>

RECURSIVE Tokenized(_, _, _)
\* The event log of the text content bs from byte i on, after the events
\* evs: Data over text, an AttentionSequence pair over each maximal run of
\* one marker, the events of a link around its label.
Tokenized(bs, i, evs) ==
    IF i >= Len(bs) THEN evs
    ELSE LET b == At(bs, i) IN
         IF b \in {"*", "_"}
         THEN LET end == SequenceEnd(bs, b, i + 1) IN
              Tokenized(bs, end,
                        evs \o <<Event("Enter", "AttentionSequence", i),
                                 Event("Exit", "AttentionSequence", end)>>)
         ELSE IF b = "[" THEN Tokenized(bs, i + 1, evs \o LinkOpenEvents(i))
         ELSE IF b = "]" THEN Tokenized(bs, i + 1, evs \o LinkCloseEvents(i))
         ELSE LET end == TextEnd(bs, i + 1) IN
              Tokenized(bs, end,
                        evs \o <<Event("Enter", "Data", i),
                                 Event("Exit", "Data", end)>>)

InitAttention ==
    /\ \E n \in 1..MaxAttentionBytes : \E bs \in [1..n -> AttentionBytes] :
          /\ WellFormedText(bs)
          /\ bytes = bs
          /\ events = Tokenized(bs, 0, <<>>)
    /\ definitions = {}
    /\ pc = "text"
    /\ index = Len(bytes)
    /\ label_start_stack = <<>>
    /\ label_start_list_loose = <<>>
    /\ media_list = <<>>
    /\ info = NoInfo
    /\ checkpoint = [events_len |-> 0, index |-> 0]
    /\ map = EditMapNew
    /\ resolvers = <<"attention">>
    /\ sequences = <<>>
    /\ close = 0
    /\ matches = <<>>
    /\ calls = <<>>
    /\ tokenize_state = [marker |-> Nul]
    /\ constructs = AllConstructs
    /\ position = NoPosition
    /\ slice = NoSlice

NextAttention ==
    \/ ResolveFind
    \/ PairAdvance
    \/ PairMatch
    \/ ResolveFinish

SpecAttention == InitAttention /\ [][NextAttention]_vars

\* The most bytes in a buffer of SpecAttentionLive.
MaxLiveBytes == 5

InitAttentionLive == InitAttention /\ Len(bytes) <= MaxLiveBytes

\* The resolver as the driver runs it: resolve is one call, its loops go on
\* until they end.
SpecAttentionLive ==
    InitAttentionLive /\ [][NextAttention]_vars /\ WF_vars(NextAttention)

----------------------------------------------------------------------------
(* One pass: the text content with label and attention constructs, then the
   resolvers registered, in turn, on the one map of the tokenizer *)

\* attention start and inside: one AttentionSequence over the run of the
\* marker at index; the attention resolver is registered.
AttentionSequence ==
    /\ pc = "text"
    /\ Code(index) \in {"*", "_"}
    /\ constructs.attention
    /\ LET end == SequenceEnd(bytes, Code(index), index + 1) IN
       /\ events' = events \o <<Event("Enter", "AttentionSequence", index),
                                Event("Exit", "AttentionSequence", end)>>
       /\ index' = end
    /\ resolvers' = register_resolver(resolvers, "attention")
    /\ pc' = "text"
    /\ UNCHANGED <<bytes, definitions, label_start_stack,
                   label_start_list_loose, media_list, info, checkpoint, map,
                   sequences, close, matches, calls,
                   tokenize_state, constructs, position,
                   slice>>

\* attention::start, tried by the text content at a byte: on a marker, with
\* the construct enabled, the marker is kept and the sequence is entered;
\* otherwise Nok, and the text content goes on with data.
AttentionStart ==
    /\ pc = "text"
    /\ Code(index) # Eof
    /\ IF Code(index) \in {"*", "_"} /\ constructs.attention
       THEN /\ tokenize_state' = [tokenize_state EXCEPT !.marker = Code(index)]
            /\ events' = Append(events, Event("Enter", "AttentionSequence", index))
            /\ pc' = "attention_inside"
       ELSE /\ pc' = "data"
            /\ UNCHANGED <<tokenize_state, events>>
    /\ UNCHANGED <<bytes, definitions, index, label_start_stack,
                   label_start_list_loose, media_list, info, checkpoint, map,
                   resolvers, sequences, close, matches, calls, constructs, position,
                   slice>>

\* A slip: inside goes on at a byte of either marker.
AttentionInsideAnyMarker ==
    /\ pc = "attention_inside"
    /\ IF Code(index) \in {"*", "_"}
       THEN /\ index' = index + 1
            /\ UNCHANGED <<pc, events, resolvers, tokenize_state>>
       ELSE /\ events' = Append(events, Event("Exit", "AttentionSequence", index))
            /\ resolvers' = register_resolver(resolvers, "attention")
            /\ tokenize_state' = [tokenize_state EXCEPT !.marker = Nul]
            /\ pc' = "text"
            /\ UNCHANGED index
    /\ UNCHANGED <<bytes, definitions, label_start_stack,
                   label_start_list_loose, media_list, info, checkpoint, map,
                   sequences, close, matches, calls, constructs, position,
                   slice>>

\* attention::inside: a byte of the marker kept is consumed; any other byte,
\* or the end, exits the sequence, registers the resolver and resets the
\* marker.
AttentionInside ==
    /\ pc = "attention_inside"
    /\ IF Code(index) \in {"*", "_"} /\ Code(index) = tokenize_state.marker
       THEN /\ index' = index + 1
            /\ UNCHANGED <<pc, events, resolvers, tokenize_state>>
       ELSE /\ events' = Append(events, Event("Exit", "AttentionSequence", index))
            /\ resolvers' = register_resolver(resolvers, "attention")
            /\ tokenize_state' = [tokenize_state EXCEPT !.marker = Nul]
            /\ pc' = "text"
            /\ UNCHANGED index
    /\ UNCHANGED <<bytes, definitions, label_start_stack,
                   label_start_list_loose, media_list, info, checkpoint, map,
                   sequences, close, matches, calls, constructs, position,
                   slice>>

\* The longest buffer of SpecSequence.
MaxSequenceBytes == 5

\* The bytes the buffers of SpecSequence are made of.
SequenceBytes == {"a", "*", "_"}

InitSequence ==
    /\ \E n \in 0..MaxSequenceBytes : bytes \in [1..n -> SequenceBytes]
    /\ constructs \in {[attention |-> TRUE], [attention |-> FALSE]}
    /\ tokenize_state = [marker |-> Nul]
    /\ definitions = {}
    /\ pc = "text"
    /\ index = 0
    /\ events = <<>>
    /\ label_start_stack = <<>>
    /\ label_start_list_loose = <<>>
    /\ media_list = <<>>
    /\ info = NoInfo
    /\ checkpoint = [events_len |-> 0, index |-> 0]
    /\ map = EditMapNew
    /\ resolvers = <<>>
    /\ sequences = <<>>
    /\ close = 0
    /\ matches = <<>>
    /\ calls = <<>>
    /\ position = NoPosition
    /\ slice = NoSlice

NextSequence == AttentionStart \/ AttentionInside \/ TextData

SpecSequence == InitSequence /\ [][NextSequence]_vars

\* The most pieces a buffer of SpecPass is made of.
MaxPassPieces == 5

\* The buffers of SpecPass: those of SpecMedia with attention markers.
PassBuffers ==
    {Flatten(s) :
        s \in UNION {[1..n -> MediaPieces \cup {<<"*">>}] :
                        n \in 0..MaxPassPieces}}

InitPass ==
    /\ bytes \in PassBuffers
    /\ definitions = {<<"a">>}
    /\ TokenizerInit

NextPass ==
    \/ TextData
    \/ AttentionSequence
    \/ LabelStartLink
    \/ LabelStartImage
    \/ LabelEndStart
    \/ After
    \/ ReferenceNotFull
    \/ Ok
    \/ Nok
    \/ Restore
    \/ ResolveMedia
    \/ ResolveFind
    \/ PairAdvance
    \/ PairMatch
    \/ ResolveFinish
    \/ Finish

SpecPass == InitPass /\ [][NextPass]_vars

----------------------------------------------------------------------------
(* The EditMap on its own: add, add_before and consume on an event log *)

\* The most events in a log of SpecEditMap.
MaxEditEvents == 4

\* The most add and add_before calls made on a map of SpecEditMap.
MaxEditCalls == 2

\* The most events one call removes in SpecEditMap.
MaxEditRemove == 2

\* The link of event i (0-based) in a log whose events in `linked` form one
\* chain: the nearest linked event in the direction dir, None without one.
ChainLink(linked, i, dir) ==
    IF i \notin linked THEN None
    ELSE LET side == {j \in linked : IF dir < 0 THEN j < i ELSE j > i}
         IN IF side = {} THEN None
            ELSE CHOOSE j \in side :
                     \A k \in side : IF dir < 0 THEN k <= j ELSE k >= j

\* A log of n events, told apart by their points, where the events in
\* `linked` are chained by previous and next.
LinkedLog(n, linked) ==
    [i \in 1..n |->
        [kind |-> "Enter", name |-> "Data", point |-> i - 1,
         previous |-> ChainLink(linked, i - 1, 0 - 1),
         next |-> ChainLink(linked, i - 1, 1)]]

\* The event vectors a call adds: without links, as consume asserts.
EditAdds ==
    {<<>>,
     <<Event("Enter", "Emphasis", 0)>>,
     <<Event("Enter", "Strong", 0), Event("Exit", "Strong", 0)>>}

\* The map after the calls cs were made in order on a new map.
RECURSIVE Replay(_, _)
Replay(cs, edit_map) ==
    IF cs = <<>> THEN edit_map
    ELSE Replay(Tail(cs),
                add_impl(edit_map, Head(cs).at, Head(cs).remove, Head(cs).add,
                         Head(cs).before))

RECURSIVE Copied(_, _, _, _)
\* The original indices consume copies to its output: the slices before
\* each edit and the tail.
Copied(m, len, i, start) ==
    IF i > Len(m) THEN start..(len - 1)
    ELSE (start..(m[i].at - 1)) \cup Copied(m, len, i + 1, m[i].at + m[i].remove)

\* Whether an assertion of shift_links fails in consume: a link of a copied
\* event would shift before 0.
ShiftsBeforeZero(edit_map, evs) ==
    LET sorted == SortByAt(edit_map.map)
        jumps == Jumps(sorted, 1, 0)
    IN \E k \in Copied(sorted, Len(evs), 1, 0) :
          \E link \in {At(evs, k).previous, At(evs, k).next} :
              link # None /\ link + JumpOf(jumps, link, 1, 0) < 0

\* The map consume leaves: consumed, sorted, its additions drained.
Drained(edit_map) ==
    LET sorted == SortByAt(edit_map.map)
    IN [consumed |-> TRUE,
        map |-> [i \in 1..Len(sorted) |-> [sorted[i] EXCEPT !.add = <<>>]]]

\* A call of add (before = FALSE) or add_before (before = TRUE).
EditMapCall(before) ==
    /\ \E at \in 0..Len(events) :
       \E remove \in 0..MaxEditRemove :
       \E add \in EditAdds :
          /\ at + remove <= Len(events)
          /\ remove + Len(add) > 0
          /\ IF map.consumed
             THEN /\ pc' = "panic"
                  /\ UNCHANGED <<map, calls>>
             ELSE /\ map' = add_impl(map, at, remove, add, before)
                  /\ calls' = Append(calls, [at |-> at, remove |-> remove,
                                             add |-> add, before |-> before])
                  /\ pc' = pc
    /\ UNCHANGED <<bytes, definitions, index, events, label_start_stack,
                   label_start_list_loose, media_list, info, checkpoint,
                   resolvers, sequences, close, matches,
                   tokenize_state, constructs, position,
                   slice>>

\* EditMap::add
EditMapAdd ==
    /\ pc \in {"edit", "consumed"}
    /\ Len(calls) < MaxEditCalls
    /\ EditMapCall(FALSE)

\* EditMap::add_before
EditMapAddBefore ==
    /\ pc \in {"edit", "consumed"}
    /\ Len(calls) < MaxEditCalls
    /\ EditMapCall(TRUE)

\* A slip: consume does not look at the consumed flag.
EditMapConsumeUnchecked ==
    /\ pc \in {"edit", "consumed"}
    /\ IF ShiftsBeforeZero(map, events)
       THEN /\ pc' = "panic"
            /\ map' = [consumed |-> TRUE, map |-> SortByAt(map.map)]
            /\ UNCHANGED events
       ELSE /\ events' = consume(map, events)
            /\ map' = Drained(map)
            /\ pc' = "consumed"
    /\ UNCHANGED <<bytes, definitions, index, label_start_stack,
                   label_start_list_loose, media_list, info, checkpoint,
                   resolvers, sequences, close, matches, calls,
                   tokenize_state, constructs, position,
                   slice>>

\* EditMap::consume
EditMapConsume ==
    /\ pc \in {"edit", "consumed"}
    /\ IF map.consumed
       THEN /\ pc' = "panic"
            /\ UNCHANGED <<events, map>>
       ELSE IF ShiftsBeforeZero(map, events)
       THEN /\ pc' = "panic"
            /\ map' = [consumed |-> TRUE, map |-> SortByAt(map.map)]
            /\ UNCHANGED events
       ELSE /\ events' = consume(map, events)
            /\ map' = Drained(map)
            /\ pc' = "consumed"
    /\ UNCHANGED <<bytes, definitions, index, label_start_stack,
                   label_start_list_loose, media_list, info, checkpoint,
                   resolvers, sequences, close, matches, calls,
                   tokenize_state, constructs, position,
                   slice>>

\* A new map and an event log, in a tokenizer that does nothing else.
InitEditMap ==
    /\ \E n \in 0..MaxEditEvents : \E linked \in SUBSET (0..(n - 1)) :
          events = LinkedLog(n, linked)
    /\ map = EditMapNew
    /\ calls = <<>>
    /\ pc = "edit"
    /\ bytes = <<>>
    /\ definitions = {}
    /\ index = 0
    /\ label_start_stack = <<>>
    /\ label_start_list_loose = <<>>
    /\ media_list = <<>>
    /\ info = NoInfo
    /\ checkpoint = [events_len |-> 0, index |-> 0]
    /\ resolvers = <<>>
    /\ sequences = <<>>
    /\ close = 0
    /\ matches = <<>>
    /\ tokenize_state = [marker |-> Nul]
    /\ constructs = AllConstructs
    /\ position = NoPosition
    /\ slice = NoSlice

NextEditMap == EditMapAdd \/ EditMapAddBefore \/ EditMapConsume

SpecEditMap == InitEditMap /\ [][NextEditMap]_vars

----------------------------------------------------------------------------
(* Slice: the bytes between two points *)

\* util::constant::TAB_SIZE: the columns of a tab.
TAB_SIZE == 4

\* Slice::from_position, up to the range taken from the bytes: start and end
\* of the range, and the virtual spaces before and after.
from_position(position_given) ==
    LET before == position_given.start.vs
        after == position_given.end.vs
        start == position_given.start.index
        end == position_given.end.index
    IN [start |-> IF before > 0 THEN start + 1 ELSE start,
        end |-> IF after > 0 THEN end + 1 ELSE end,
        before |-> IF before > 0 THEN TAB_SIZE - before ELSE before,
        after |-> IF after > 0 THEN after - 1 ELSE after]

\* Slice::len
Slice_len(s) == Len(s.bytes) + s.before + s.after

\* Slice::from_position on the buffer: taking the range fails when its
\* start is past its end or its end is past the buffer.
FromPosition ==
    /\ pc = "position"
    /\ LET r == from_position(position) IN
       IF r.start > r.end \/ r.end > Len(bytes)
       THEN /\ pc' = "panic"
            /\ UNCHANGED slice
       ELSE /\ slice' = [bytes |-> Slice(bytes, r.start, r.end),
                         before |-> r.before, after |-> r.after]
            /\ pc' = "slice"
    /\ UNCHANGED <<bytes, definitions, index, events, label_start_stack,
                   label_start_list_loose, media_list, info, checkpoint, map,
                   resolvers, sequences, close, matches, calls, tokenize_state,
                   constructs, position>>

\* The longest buffer of SpecSlice.
MaxSliceBytes == 3

\* The bytes the buffers of SpecSlice are made of.
SliceBytes == {"a", "\t"}

\* The points of a buffer: virtual spaces are passed only inside a tab, and
\* fewer than the columns of a tab.
Points(bs) ==
    {Point(i, v) : i \in 0..Len(bs), v \in 0..(TAB_SIZE - 1)}
        \ {pt \in {Point(i, v) : i \in 0..Len(bs), v \in 1..(TAB_SIZE - 1)} :
               pt.index = Len(bs) \/ At(bs, pt.index) # "\t"}

InitSlice ==
    /\ \E n \in 0..MaxSliceBytes : bytes \in [1..n -> SliceBytes]
    /\ position \in [start : Points(bytes), end : Points(bytes)]
    /\ slice = NoSlice
    /\ pc = "position"
    /\ definitions = {}
    /\ index = 0
    /\ events = <<>>
    /\ label_start_stack = <<>>
    /\ label_start_list_loose = <<>>
    /\ media_list = <<>>
    /\ info = NoInfo
    /\ checkpoint = [events_len |-> 0, index |-> 0]
    /\ map = EditMapNew
    /\ resolvers = <<>>
    /\ sequences = <<>>
    /\ close = 0
    /\ matches = <<>>
    /\ calls = <<>>
    /\ tokenize_state = [marker |-> Nul]
    /\ constructs = AllConstructs

NextSlice == FromPosition

SpecSlice == InitSlice /\ [][NextSlice]_vars

----------------------------------------------------------------------------
(* Reading an event log *)

\* The number of events of a kind and name in a log.
Count(evs, kind, name) ==
    Cardinality({i \in 1..Len(evs) : evs[i].kind = kind /\ evs[i].name = name})

\* The position (1-based) of the first event of a kind, name and point; 0
\* when there is none.
PosOf(evs, kind, name, point) ==
    LET S == {i \in 1..Len(evs) : /\ evs[i].kind = kind
                                  /\ evs[i].name = name
                                  /\ evs[i].point = point}
    IN IF S = {} THEN 0 ELSE CHOOSE i \in S : \A j \in S : i <= j

\* The position of the first event after position j of a kind and with a
\* name in names; 0 when there is none.
FirstAfter(evs, j, kind, names) ==
    LET S == {i \in (j + 1)..Len(evs) : /\ evs[i].kind = kind
                                        /\ evs[i].name \in names}
    IN IF S = {} THEN 0 ELSE CHOOSE i \in S : \A k \in S : i <= k

\* The position of the last event before position j of a kind and with a
\* name in names; 0 when there is none.
LastBefore(evs, j, kind, names) ==
    LET S == {i \in 1..(j - 1) : /\ evs[i].kind = kind
                                 /\ evs[i].name \in names}
    IN IF S = {} THEN 0 ELSE CHOOSE i \in S : \A k \in S : i >= k

\* The inserts the map records at index at; none when it has no edit there.
InsertsAt(edit_map, at) ==
    LET i == FindAt(edit_map.map, at, 1)
    IN IF i = 0 THEN <<>> ELSE edit_map.map[i].add

\* A step in which resolve_media runs to its end.
MediaResolved == RunsNext("media") /\ ~map.consumed /\ pc' \in {"done", "resolve"}

----------------------------------------------------------------------------
(* Claims on the media resolver and the label end *)

\* C1: for every committed media, resolve_media inserts after the media's
\* end a group Exit named as the group Enter it inserted at the label start
\* (Link for a LabelLink start, Image for a LabelImage start), so that the
\* resolved log has as many Exits as Enters of Link and of Image.
C1_GroupExitNamedAsEnter ==
    [][MediaResolved =>
        /\ \A k \in 1..Len(media_list) :
              LET name == GroupEnterName(At(events, media_list[k].start[1]))
                  enter == InsertsAt(map', media_list[k].start[1])
                  exit == InsertsAt(map', media_list[k].end[2] + 1)
              IN /\ \E i \in 1..Len(enter) :
                        enter[i].kind = "Enter" /\ enter[i].name = name
                 /\ \E i \in 1..Len(exit) :
                        exit[i].kind = "Exit" /\ exit[i].name = name
        /\ \A name \in {"Link", "Image"} :
              Count(events', "Enter", name) = Count(events', "Exit", name)
      ]_vars

\* Whether media inner starts at the first event inside the label of outer.
StartsLabelOf(inner, outer) ==
    inner.start[1] = outer.start[2] + 1

\* C2: when a committed media starts at the first event inside the label of
\* another committed media, the resolved log has the outer media's
\* Enter(LabelText) before the inner media's group Enter and Enter(Label),
\* and the inner media's group Exit before the outer media's Exit(LabelText).
C2_OuterEntersFirst ==
    [][MediaResolved =>
        \A a, b \in 1..Len(media_list) :
            LET outer == media_list[a]
                inner == media_list[b]
                start_exit == At(events, outer.start[2])
                j == PosOf(events', "Exit", start_exit.name, start_exit.point)
                k == PosOf(events', "Enter", "LabelEnd",
                           At(events, outer.end[1]).point)
                text_enter == FirstAfter(events', j, "Enter", {"LabelText"})
                group_enter == FirstAfter(events', j, "Enter", {"Link", "Image"})
                label_enter == FirstAfter(events', j, "Enter", {"Label"})
                text_exit == LastBefore(events', k, "Exit", {"LabelText"})
                group_exit == LastBefore(events', k, "Exit", {"Link", "Image"})
            IN StartsLabelOf(inner, outer) =>
                  /\ j > 0 /\ k > j
                  /\ 0 < text_enter /\ text_enter < group_enter
                  /\ text_enter < label_enter
                  /\ 0 < group_exit /\ group_exit < text_exit
      ]_vars

\* Whether the label start at event index enter is a LabelLink.
IsLinkStart(evs, enter) == At(evs, enter).name = "LabelLink"

\* Whether some committed link lies inside the label of a committed link.
LinkInLink(ml, evs) ==
    \E a, b \in 1..Len(ml) :
        /\ a # b
        /\ IsLinkStart(evs, ml[a].start[1])
        /\ IsLinkStart(evs, ml[b].start[1])
        /\ ml[a].start[1] < ml[b].start[1]
        /\ ml[b].end[2] < ml[a].end[1]

\* C3: no committed link media lies inside the label of another committed
\* link media; when a label end commits with a LabelLink start every
\* LabelLink start left on the stack is inactive, an inactive label start
\* stays inactive and never becomes the start of a media, and a label end
\* that finds it marks it balanced and returns Nok.
C3_NoLinkInLink ==
    [][/\ ~LinkInLink(media_list', events')
       /\ (pc = "ok" /\ IsLinkStart(events, info.media.start[1])) =>
             \A i \in 1..Len(label_start_stack') :
                 IsLinkStart(events', label_start_stack'[i].start[1]) =>
                     label_start_stack'[i].inactive
       /\ \A i \in 1..Len(label_start_stack) :
             label_start_stack[i].inactive =>
                /\ \A k \in 1..Len(media_list') :
                       media_list'[k].start # label_start_stack[i].start
                /\ \A j \in 1..Len(label_start_stack') :
                       label_start_stack'[j].start = label_start_stack[i].start
                           => label_start_stack'[j].inactive
                /\ (/\ pc = "text"
                    /\ Code(index) = "]"
                    /\ TopUnbalanced(label_start_stack,
                                     Len(label_start_stack)) = i - 1) =>
                       /\ pc' = "data"
                       /\ label_start_stack'[i].balanced
                       /\ events' = events
                       /\ media_list' = media_list
      ]_vars

\* C3 witness: after a media was committed, a label end found an inactive
\* label start, marked it balanced and returned Nok.
C3_Witness ==
    /\ pc = "data"
    /\ media_list # <<>>
    /\ \E i \in 1..Len(label_start_stack) :
           label_start_stack[i].inactive /\ label_start_stack[i].balanced

----------------------------------------------------------------------------
(* Claims on the attention resolver *)

\* A step in which attention's resolve runs to its end.
AttentionResolved == pc = "pair" /\ pc' \in {"done", "resolve"}

\* A step in which attention's resolve collects the sequences.
SequencesFound == pc # "pair" /\ pc' = "pair"

\* A step in which the pairing loop matches an opener and a closer.
Matched == Len(matches') = Len(matches) + 1

\* The match the pairing loop made last.
LastMatch(ms) == ms[Len(ms)]

\* The sequences as the first loop of resolve found them in the buffer.
FirstSequences == FindSequences(Tokenized(bytes, 0, <<>>), 0, 0, <<>>)

\* Whether the log has the Enter and Exit of Data over from..to, adjacent.
HasData(evs, from, to) ==
    \E i \in 1..(Len(evs) - 1) :
        /\ evs[i] = Event("Enter", "Data", from)
        /\ evs[i + 1] = Event("Exit", "Data", to)

\* C4: in the log the attention resolver leaves, no event is named
\* AttentionSequence; the two events of every sequence used up are removed
\* (the log loses two events per such sequence and gains eight per match),
\* the sequences left have markers left, and the Enter and Exit of each
\* are named Data.
C4_NoAttentionSequenceLeft ==
    [][AttentionResolved =>
        /\ \A i \in 1..Len(events') : events'[i].name # "AttentionSequence"
        /\ Len(events') =
              Len(events)
                - 2 * (Count(events, "Enter", "AttentionSequence") - Len(sequences))
                + 8 * Len(matches)
        /\ \A k \in 1..Len(sequences) :
              /\ sequences[k].size > 0
              /\ HasData(events', sequences[k].start_point, sequences[k].end_point)
      ]_vars

\* C4 witness: the resolver has run on a log in which one sequence was used
\* up by a match and another was left with markers.
C4_Witness ==
    /\ pc = "done"
    /\ matches # <<>>
    /\ sequences # <<>>
    /\ Len(FirstSequences) > Len(sequences)
    /\ \A i \in 1..Len(events) : events[i].name # "AttentionSequence"

RECURSIVE Nests(_, _, _)
\* Whether the events of evs from position i on exit the names of stack,
\* innermost last, and every name they enter.
Nests(evs, i, stack) ==
    IF i > Len(evs) THEN stack = <<>>
    ELSE IF evs[i].kind = "Enter"
    THEN Nests(evs, i + 1, Append(stack, evs[i].name))
    ELSE /\ stack # <<>>
         /\ stack[Len(stack)] = evs[i].name
         /\ Nests(evs, i + 1, SubSeq(stack, 1, Len(stack) - 1))

\* Whether a log is well nested.
WellNested(evs) == Nests(evs, 1, <<>>)

\* C5: when the log the attention resolver is given is well nested, the log
\* it leaves is well nested: every Enter, the inserted ones of Emphasis,
\* Strong and their sequences and texts included, has its Exit of the same
\* name at the same depth.
C5_WellNestedAfterAttention ==
    [][(AttentionResolved /\ WellNested(events)) => WellNested(events')]_vars

\* The rule of three between an opener and a closer, on the sizes they have.
RuleOfThree(o, c) ==
    /\ (o.close \/ c.open)
    /\ c.size % 3 # 0
    /\ (o.size + c.size) % 3 = 0

\* Whether sequence o is one the closer c is matched with when reached.
Qualifies(o, c) ==
    /\ o.open
    /\ o.marker = c.marker
    /\ o.balance = c.balance
    /\ ~RuleOfThree(o, c)

\* C6: in every turn of the pairing loop, the sequence at `close`, when it
\* can close, is matched with the nearest sequence before it that can open,
\* has its marker and balance, and is not passed over by the rule of three
\* on the sizes left; nearer sequences that are passed over do not end the
\* search, and when no sequence qualifies the loop moves on with no match.
C6_NearestOpener ==
    [][(pc = "pair" /\ close < Len(sequences) /\ pc' = "pair") =>
        LET c == At(sequences, close)
            Q == {o \in 0..(close - 1) :
                     c.close /\ Qualifies(At(sequences, o), c)}
        IN IF Q = {}
           THEN matches' = matches /\ close' = close + 1
           ELSE LET o == CHOOSE x \in Q : \A y \in Q : y <= x IN
                /\ Matched
                /\ LastMatch(matches').open = At(sequences, o).event_index
                /\ LastMatch(matches').close = c.event_index
      ]_vars

\* C6 witness: the first match of a run was made with an opener beyond a
\* nearer sequence that can open and has the closer's marker and balance,
\* which the rule of three passed over.
C6_Witness ==
    /\ Len(matches) = 1
    /\ LET seqs == FirstSequences IN
       \E o, k, c \in 1..Len(seqs) :
           /\ o < k /\ k < c
           /\ seqs[o].event_index = matches[1].open
           /\ seqs[c].event_index = matches[1].close
           /\ seqs[k].open
           /\ seqs[k].marker = seqs[c].marker
           /\ seqs[k].balance = seqs[c].balance
           /\ RuleOfThree(seqs[k], seqs[c])

\* The log of an Emphasis around a Strong around text, between points p and
\* q + 3: three markers from p, text up to q, three markers from q.
EmphasisAroundStrong(p, q) ==
    <<Event("Enter", "Emphasis", p),
      Event("Enter", "EmphasisSequence", p),
      Event("Exit", "EmphasisSequence", p + 1),
      Event("Enter", "EmphasisText", p + 1),
      Event("Enter", "Strong", p + 1),
      Event("Enter", "StrongSequence", p + 1),
      Event("Exit", "StrongSequence", p + 3),
      Event("Enter", "StrongText", p + 3),
      Event("Enter", "Data", p + 3),
      Event("Exit", "Data", q),
      Event("Exit", "StrongText", q),
      Event("Enter", "StrongSequence", q),
      Event("Exit", "StrongSequence", q + 2),
      Event("Exit", "Strong", q + 2),
      Event("Exit", "EmphasisText", q + 2),
      Event("Enter", "EmphasisSequence", q + 2),
      Event("Exit", "EmphasisSequence", q + 3),
      Event("Exit", "Emphasis", q + 3)>>

\* Whether the buffer holds two sequences only, of three markers each, of
\* one marker and balance, around plain text, the first able to open and
\* the second able to close.
TwoOfThree(seqs) ==
    /\ Len(seqs) = 2
    /\ seqs[1].size = 3 /\ seqs[2].size = 3
    /\ seqs[1].marker = seqs[2].marker
    /\ seqs[1].balance = seqs[2].balance
    /\ seqs[1].open /\ seqs[2].close
    /\ seqs[2].event_index = seqs[1].event_index + 4

Cross(m, n) == m.open < n.open /\ n.open < m.close /\ m.close < n.close

\* C8: no two matches cross, and with every match each sequence strictly
\* between its opener and its closer has open = false afterwards.
C8_MatchesNeverCross ==
    [][Matched =>
        LET m == LastMatch(matches') IN
        /\ \A k \in 1..Len(sequences') :
              (/\ m.open < sequences'[k].event_index
               /\ sequences'[k].event_index < m.close) => ~sequences'[k].open
        /\ \A a \in 1..Len(matches) :
              ~Cross(matches[a], m) /\ ~Cross(m, matches[a])
      ]_vars

\* C8 witness: the resolver has run; a sequence found able to open lies
\* between the opener and the closer of a match, and a sequence of its
\* marker and balance that can close lies beyond the closer; both are left
\* unmatched.
C8_Witness ==
    /\ pc = "done"
    /\ LET seqs == FirstSequences IN
       \E a \in 1..Len(matches) : \E k, l \in 1..Len(seqs) :
           /\ matches[a].open < seqs[k].event_index
           /\ seqs[k].event_index < matches[a].close
           /\ matches[a].close < seqs[l].event_index
           /\ seqs[k].open /\ seqs[l].close
           /\ seqs[k].marker = seqs[l].marker
           /\ seqs[k].balance = seqs[l].balance
           /\ \E i, j \in 1..Len(sequences) :
                 /\ sequences[i].event_index = seqs[k].event_index
                 /\ sequences[j].event_index = seqs[l].event_index
                 /\ ~sequences[i].open

\* Whether byte i of the buffer is there and of class Other.
OtherAt(i) ==
    /\ 0 <= i /\ i < Len(bytes)
    /\ At(bytes, i) \notin Whitespace \cup PUNCTUATION

\* Whether the bytes next to a sequence, before and after, are of class Other.
Intraword(s) == OtherAt(s.start_point - 1) /\ OtherAt(s.end_point)

\* C9: a sequence of underscores between two characters of class Other is
\* found with open = false and close = false, is the opener or closer of no
\* match, and is Data in the log the resolver leaves; a sequence of asterisks
\* between two such characters is found with open = true and close = true.
C9_IntrawordUnderscore ==
    [][/\ SequencesFound =>
             \A k \in 1..Len(sequences') :
                 LET s == sequences'[k] IN
                 Intraword(s) =>
                     IF s.marker = "_" THEN ~s.open /\ ~s.close
                     ELSE s.open /\ s.close
       /\ \A k \in 1..Len(sequences) :
             LET s == sequences[k] IN
             (pc = "pair" /\ s.marker = "_" /\ Intraword(s)) =>
                 /\ Matched =>
                       s.event_index \notin {LastMatch(matches').open,
                                             LastMatch(matches').close}
                 /\ pc' = "pair" =>
                       \E j \in 1..Len(sequences') : sequences'[j] = s
                 /\ AttentionResolved =>
                       HasData(events', s.start_point, s.end_point)
      ]_vars

\* C9 witness: the resolver has run on a buffer with an underscore sequence
\* between two characters of class Other, which is Data in the log.
C9_Witness ==
    /\ pc = "done"
    /\ \E k \in 1..Len(sequences) :
           /\ sequences[k].marker = "_"
           /\ Intraword(sequences[k])
           /\ HasData(events, sequences[k].start_point, sequences[k].end_point)

\* Whether byte i of the buffer is there and not whitespace.
InkAt(i) ==
    /\ 0 <= i /\ i < Len(bytes)
    /\ At(bytes, i) \notin Whitespace

\* C10: a sequence at the start of the buffer is found as one after
\* whitespace (it cannot close, and can open when a character that is not
\* whitespace follows), a sequence at the end as one before whitespace (it
\* cannot open, and can close when a character that is not whitespace
\* precedes); the windows read around a sequence lie within the buffer; and
\* in `*a*` the two sequences are matched.
C10_BufferEdgesAreWhitespace ==
    [][/\ SequencesFound =>
             \A k \in 1..Len(sequences') :
                 LET s == sequences'[k] IN
                 /\ s.start_point = 0 =>
                       ~s.close /\ (s.open <=> InkAt(s.end_point))
                 /\ s.end_point = Len(bytes) =>
                       ~s.open /\ (s.close <=> InkAt(s.start_point - 1))
                 /\ 0 <= BeforeStart(s.start_point)
                 /\ BeforeStart(s.start_point) <= s.start_point
                 /\ s.end_point <= AfterEnd(s.end_point)
                 /\ AfterEnd(s.end_point) <= Len(bytes)
       /\ (AttentionResolved /\ bytes = <<"*", "a", "*">>) =>
             matches = <<[open |-> 0, close |-> 4, take |-> 1]>>
      ]_vars

\* C10 witness: the resolver has run on `*a*` and matched its two sequences.
C10_Witness ==
    /\ pc = "done"
    /\ bytes = <<"*", "a", "*">>
    /\ Len(matches) = 1
    /\ sequences = <<>>

----------------------------------------------------------------------------
(* Claims on label starts, label ends and references *)

\* The event indices of the label starts in a log: the Enters of LabelLink
\* and LabelImage.
LabelStartsOf(evs) ==
    {e \in 0..(Len(evs) - 1) :
        /\ At(evs, e).kind = "Enter"
        /\ At(evs, e).name \in {"LabelLink", "LabelImage"}}

\* How many entries of a sequence of label starts start at event e.
StartsAt(list, e) == Cardinality({k \in 1..Len(list) : list[k].start[1] = e})

\* Whether seq holds a and b next to each other, in this order.
HasPair(seq, a, b) ==
    \E i \in 1..(Len(seq) - 1) : seq[i] = a /\ seq[i + 1] = b

\* The edit the map records at index at, as one that removes and adds
\* nothing when it records none.
EditAt(edit_map, at) ==
    LET i == FindAt(edit_map.map, at, 1)
    IN IF i = 0 THEN [at |-> at, remove |-> 0, add |-> <<>>]
       ELSE edit_map.map[i]

\* C11: until resolve_media runs, every label start pushed is in exactly one
\* of media_list, the loose list and the stack, once; resolve_media gives
\* each start of a media a group Enter (Link or Image) and Enter(Label)
\* before its own events, which stay, and replaces the events of every other
\* label start by one Enter/Exit pair of Data; the resolved log has as many
\* label starts as there were medias.
C11_LabelStartOutcomes ==
    [][/\ ~map'.consumed =>
             \A e \in LabelStartsOf(events') :
                 StartsAt(media_list', e) + StartsAt(label_start_list_loose', e)
                     + StartsAt(label_start_stack', e) = 1
       /\ MediaResolved =>
             /\ \A e \in LabelStartsOf(events) :
                   LET edit == EditAt(map', e)
                       enter == At(events, e)
                       exit == At(events, e + (IF enter.name = "LabelLink"
                                               THEN 3 ELSE 5))
                   IN IF StartsAt(media_list, e) = 1
                      THEN /\ edit.remove = 0
                           /\ HasPair(edit.add,
                                 Event("Enter", GroupEnterName(enter), enter.point),
                                 Event("Enter", "Label", enter.point))
                           /\ ~HasPair(edit.add,
                                 Event("Enter", "Data", enter.point),
                                 Event("Exit", "Data", exit.point))
                      ELSE /\ edit.remove = (IF enter.name = "LabelLink"
                                             THEN 4 ELSE 6)
                           /\ HasPair(edit.add,
                                 Event("Enter", "Data", enter.point),
                                 Event("Exit", "Data", exit.point))
                           /\ \A i \in 1..Len(edit.add) :
                                 ~(/\ edit.add[i].kind = "Enter"
                                   /\ edit.add[i].name \in {"Link", "Image"}
                                   /\ edit.add[i].point = enter.point)
             /\ Cardinality(LabelStartsOf(events')) = Len(media_list)
             /\ Count(events', "Enter", "Data") =
                   Count(events, "Enter", "Data")
                       + Len(label_start_list_loose) + Len(label_start_stack)
      ]_vars

\* C11 witness: resolve_media has run on a buffer of which one label start
\* was the start of a media and another was left loose.
C11_Witness ==
    /\ pc = "done"
    /\ map.consumed
    /\ \E i, j \in 1..Len(map.map) :
          /\ map.map[i].remove > 0
          /\ \E k \in 1..Len(map.map[j].add) :
                /\ map.map[j].add[k].kind = "Enter"
                /\ map.map[j].add[k].name \in {"Link", "Image"}

\* Whether the bytes at i are the `[]` of a collapsed reference.
AtCollapsed(i) == Code(i) = "[" /\ Code(i + 1) = "]"

\* C12: after `]` at `[`, when the full reference fails and the id of the
\* label is defined a collapsed reference is tried, and when it is not
\* defined the label end fails; after the collapsed reference was tried the
\* label end is accepted, as a collapsed reference or, the id being defined,
\* as a shortcut reference.
C12_ShortcutAfterReferenceFails ==
    [][/\ (pc = "after" /\ Code(index) = "["
              /\ ~full_reference(events, index).ok) =>
             pc' = (IF Defined THEN "reference_not_full" ELSE "nok")
       /\ (pc = "reference_not_full" /\ Defined) =>
             /\ pc' = "ok"
             /\ AtCollapsed(index) => index' = index + 2
             /\ ~AtCollapsed(index) => index' = index /\ events' = events
      ]_vars

\* The media that ok commits in this step.
Committed == media_list'[Len(media_list')]

\* C13: after `]` at `(`: when the resource succeeds the label end goes to
\* ok with the resource's events kept, and the media committed ends at the
\* exit of the resource; when it fails and the label is defined the label
\* end goes to ok with the events and the index as they were before the
\* attempt, and the media committed ends at the exit of the label end; when
\* it fails and the label is not defined the label end goes to nok.
C13_ResourceOrShortcut ==
    [][/\ (pc = "after" /\ Code(index) = "(") =>
            LET r == resource(index) IN
            /\ r.ok =>
                  /\ pc' = "ok"
                  /\ Len(events') > Len(events)
                  /\ SubSeq(events', 1, Len(events)) = events
                  /\ At(events', Len(events') - 1) =
                        Event("Exit", "Resource", index')
            /\ (~r.ok /\ Defined) =>
                  /\ r.events # <<>>
                  /\ pc' = "ok"
                  /\ events' = events
                  /\ index' = index
            /\ (~r.ok /\ ~Defined) => pc' = "nok"
       /\ (pc = "ok" /\ Code(checkpoint.index + 1) = "(") =>
            /\ Len(media_list') = Len(media_list) + 1
            /\ At(events, Committed.end[2]) =
                  IF resource(checkpoint.index + 1).ok
                  THEN Event("Exit", "Resource", index)
                  ELSE Event("Exit", "LabelEnd", checkpoint.index + 1)
            /\ Committed.end[2] = Len(events) - 1
            /\ ~resource(checkpoint.index + 1).ok =>
                  /\ Committed.id \in definitions
                  /\ Len(events) = checkpoint.events_len + 4
                  /\ index = checkpoint.index + 1
      ]_vars

\* Reached: a media committed as a shortcut reference with `(` right after
\* its `]`, the resource there having failed.
C13_Witness ==
    \E k \in 1..Len(media_list) :
        LET end == At(events, media_list[k].end[2]) IN
        end.name = "LabelEnd" /\ Code(end.point) = "("

\* The byte after the `]` of the label end at hand.
AfterLabelEnd == checkpoint.index + 1

\* The normalized identifier of the first label, x: the bytes between the
\* label start and the `]`.
FirstLabel ==
    normalize_identifier(
        Slice(bytes, At(events, info.media.start[2]).point, checkpoint.index))

\* `[y]` follows the `]`.
FullForm ==
    Code(AfterLabelEnd) = "[" /\ LabelStringEnd(AfterLabelEnd + 1, FALSE) # None

\* The normalized identifier of the second label, y.
SecondLabel ==
    normalize_identifier(
        Slice(bytes, AfterLabelEnd + 1, LabelStringEnd(AfterLabelEnd + 1, FALSE)))

\* `[]` follows the `]`.
CollapsedForm == Code(AfterLabelEnd) = "[" /\ Code(AfterLabelEnd + 1) = "]"

\* Neither `(` nor `[` follows the `]`.
ShortcutForm == Code(AfterLabelEnd) \notin {"(", "["}

\* This step commits a media.
Commits == Len(media_list') = Len(media_list) + 1

\* C14: when the label end reaches ok or nok, a full reference `[x][y]`
\* commits a media exactly when the normalized identifier of y is defined,
\* whatever x is; a collapsed reference `[x][]` and a shortcut reference
\* `[x]` commit exactly when the normalized identifier of x is defined.
C14_ReferenceCommitsIffDefined ==
    [][/\ (pc \in {"ok", "nok"} /\ FullForm) =>
            (Commits <=> SecondLabel \in definitions)
       /\ (pc \in {"ok", "nok"} /\ (CollapsedForm \/ ShortcutForm)) =>
            (Commits <=> FirstLabel \in definitions)
      ]_vars

\* Reached: a full reference committed whose first label is not defined and
\* whose second label is defined only after case folding.
C14_Witness ==
    \E k \in 1..Len(media_list) :
        LET end == At(events, media_list[k].end[2]) IN
        /\ media_list[k].id \notin definitions
        /\ end = Event("Exit", "Reference", end.point)
        /\ At(bytes, end.point - 2) = "A"

\* What a failing label end leaves alone at every step.
LabelEndFrame ==
    /\ media_list' = media_list
    /\ label_start_list_loose' = label_start_list_loose
    /\ Len(label_start_stack') = Len(label_start_stack)
    /\ resolvers' = resolvers
    /\ map' = map

\* The four events start emits for the `]` at index i.
LabelEndEvents(i) ==
    <<Event("Enter", "LabelEnd", i), Event("Enter", "LabelMarker", i),
      Event("Exit", "LabelMarker", i + 1), Event("Exit", "LabelEnd", i + 1)>>

\* C15: a label end that found an eligible label start and fails changes
\* nothing but the balanced flag of that label start, which becomes true:
\* start records where the tokenizer was and adds the LabelEnd events; the
\* attempts that fail leave the events, the index and the lists alone; nok
\* sets the one flag, with the length of the stack and every other entry
\* as they were; the enclosing attempt puts events and index back to where
\* they were before the `]`, so that the LabelEnd events are gone.
C15_NokOnlyMarksBalanced ==
    [][/\ (pc = "text" /\ pc' = "after") =>
            /\ checkpoint' = [events_len |-> Len(events), index |-> index]
            /\ events' = events \o LabelEndEvents(index)
            /\ label_start_stack' = label_start_stack
            /\ LabelEndFrame
       /\ (pc \in {"after", "reference_not_full"}
              /\ pc' \in {"reference_not_full", "nok"}) =>
            /\ events' = events
            /\ index' = index
            /\ checkpoint' = checkpoint
            /\ label_start_stack' = label_start_stack
            /\ LabelEndFrame
       /\ pc = "nok" =>
            /\ pc' = "restore"
            /\ ~At(label_start_stack, info.label_start_index).balanced
            /\ label_start_stack' =
                  [label_start_stack EXCEPT
                      ![info.label_start_index + 1].balanced = TRUE]
            /\ events' = events
            /\ checkpoint' = checkpoint
            /\ LabelEndFrame
       /\ pc = "restore" =>
            /\ events = events' \o LabelEndEvents(checkpoint.index)
            /\ index' = checkpoint.index
            /\ Code(index') = "]"
            /\ label_start_stack' = label_start_stack
            /\ LabelEndFrame
      ]_vars

\* Reached: the tokenizer back at a `]` whose label end failed, with a label
\* start below one that became balanced still open.
C15_Witness ==
    /\ pc = "data"
    /\ Code(index) = "]"
    /\ checkpoint = [events_len |-> Len(events), index |-> index]
    /\ \E i, j \in 1..Len(label_start_stack) :
          /\ i < j
          /\ ~label_start_stack[i].balanced
          /\ label_start_stack[j].balanced
          /\ ~label_start_stack[j].inactive

----------------------------------------------------------------------------
(* Claims on the EditMap *)

\* consume returns in this step.
ConsumeReturns == pc = "edit" /\ pc' = "consumed"

\* The calls made name pairwise distinct indices.
DistinctIndices == \A i, j \in 1..Len(calls) : calls[i].at = calls[j].at => i = j

\* No edit of the map starts inside what another edit removes.
NoOverlap(edit_map) ==
    \A i, j \in 1..Len(edit_map.map) :
        LET a == edit_map.map[i]
            b == edit_map.map[j]
        IN ~(a.at < b.at /\ b.at < a.at + a.remove)

\* Whether the original event i (0-based) is in what an edit removes.
RemovedBy(edit_map, i) ==
    \E k \in 1..Len(edit_map.map) :
        edit_map.map[k].at <= i
            /\ i < edit_map.map[k].at + edit_map.map[k].remove

RECURSIVE Edited(_, _, _)
\* The log the edits describe, from original index i on: at each index the
\* inserts of the edit there, then the original event unless removed.
Edited(edit_map, evs, i) ==
    IF i > Len(evs) THEN <<>>
    ELSE EditAt(edit_map, i).add
         \o (IF i = Len(evs) \/ RemovedBy(edit_map, i) THEN <<>>
             ELSE <<At(evs, i)>>)
         \o Edited(edit_map, evs, i + 1)

\* A log with its links cleared.
Unlinked(evs) ==
    [k \in 1..Len(evs) |-> [evs[k] EXCEPT !.previous = None, !.next = None]]

RECURSIVE SumOver(_, _, _)
\* The sum of Len(add) - remove over the edits from position i on.
SumOver(m, i, acc) ==
    IF i > Len(m) THEN acc
    ELSE SumOver(m, i + 1, acc + Len(m[i].add) - m[i].remove)

\* The original events of a log, in order, links cleared.
Originals(evs) == SelectSeq(Unlinked(evs), LAMBDA e : e.name = "Data")

\* C16: when the edits recorded have distinct indices and none starts
\* inside what another removes, the events consume returns are the original
\* ones with, at each edit index in ascending order, the removed events
\* dropped and the inserts in their place; the length is the original length
\* plus the inserts minus the removes; the original events outside the
\* removed ranges are there once each, in their order.
C16_ConsumeAppliesEdits ==
    [][(ConsumeReturns /\ DistinctIndices /\ NoOverlap(map)) =>
          /\ Unlinked(events') = Unlinked(Edited(map, events, 0))
          /\ Len(events') = Len(events) + SumOver(map.map, 1, 0)
          /\ Originals(events') =
                SelectSeq(Unlinked(events),
                          LAMBDA e : ~RemovedBy(map, e.point))
      ]_vars

\* Reached: consume returned on two edits at different indices, neither
\* inside the other, each removing and inserting.
C16_Witness ==
    /\ pc = "consumed"
    /\ Len(calls) = 2
    /\ calls[1].at + calls[1].remove <= calls[2].at
    /\ \A k \in 1..2 : calls[k].remove > 0 /\ calls[k].add # <<>>

\* The positions (0-based) of the original event i in a log.
PlacesOf(evs, i) ==
    {q \in 0..(Len(evs) - 1) : At(evs, q).name = "Data" /\ At(evs, q).point = i}

\* The links of the kept events that pointed at kept events, as triples of
\* the place of the event in the output, the link it had and the link it has.
KeptLinks ==
    {<<q, old, new>> \in
        UNION {{<<q, At(events, At(events', q).point).previous,
                  At(events', q).previous>>,
                <<q, At(events, At(events', q).point).next,
                  At(events', q).next>>} :
               q \in {q \in 0..(Len(events') - 1) : At(events', q).name = "Data"}} :
        old # None /\ PlacesOf(events', old) # {}}

\* C17: after consume, a link of a kept original event that pointed at a
\* kept original event i is the index at which i sits in the output, and
\* so a valid index of the output.
C17_LinksFollowEvents ==
    [][ConsumeReturns =>
          \A t \in KeptLinks :
              /\ t[3] \in 0..(Len(events') - 1)
              /\ PlacesOf(events', t[2]) = {t[3]}
      ]_vars

\* The orders the calls made could have come in.
Orders == {p \in [1..Len(calls) -> 1..Len(calls)] :
              \A i, j \in 1..Len(calls) : p[i] = p[j] => i = j}

\* The calls made, in the order p.
Reordered(p) == [i \in 1..Len(calls) |-> calls[p[i]]]

\* The order p leaves calls that name the same index in the order they
\* were made in.
KeepsOrderAtEachIndex(p) ==
    \A i, j \in 1..Len(calls) :
        (i < j /\ calls[p[i]].at = calls[p[j]].at) => p[i] < p[j]

\* What consume returns for the calls made in the order p.
ConsumeOf(p) == consume(Replay(Reordered(p), EditMapNew), events)

\* C18 as stated: the events consume returns are the same for every order
\* of the same add calls.
C18_AnyOrderSameOutput ==
    [][ConsumeReturns => \A p \in Orders : ConsumeOf(p) = events']_vars

\* C18, amended: the events consume returns are the same for every order
\* of the same add calls that keeps the calls naming one index in the order
\* they were made in.
C18_OrderAcrossIndicesSameOutput ==
    [][ConsumeReturns =>
          \A p \in Orders : KeepsOrderAtEachIndex(p) => ConsumeOf(p) = events'
      ]_vars

\* Reached: consume returned on two calls that insert at different indices,
\* the later index recorded first.
C18_Witness ==
    /\ pc = "consumed"
    /\ Len(calls) = 2
    /\ calls[1].at > calls[2].at
    /\ calls[1].add # <<>>
    /\ calls[2].add # <<>>

\* C19: a consume on a map that is not consumed sets the consumed flag; on a
\* consumed map consume, add and add_before fail their assertion: no events
\* are returned, no edit is recorded, the flag stays set.
C19_SingleShot ==
    [][/\ (pc = "edit" /\ calls' = calls) => (~map.consumed /\ map'.consumed)
       /\ pc = "consumed" =>
            /\ map.consumed
            /\ pc' = "panic"
            /\ events' = events
            /\ map' = map
            /\ calls' = calls
      ]_vars

\* Reached: an assertion failed on a map whose consume had returned a log
\* with an inserted event.
C19_Witness ==
    /\ pc = "panic"
    /\ map.consumed
    /\ \E k \in 1..Len(events) : events[k].name # "Data"
    /\ \A k \in 1..Len(map.map) : map.map[k].add = <<>>

----------------------------------------------------------------------------
(* Claims on one pass with both resolvers *)

\* C20: in a pass the map of the tokenizer is consumed once: no resolver
\* calls consume on a consumed map or adds an edit to one, so that no
\* assertion of the EditMap fails.
C20_MapConsumedOnce == pc # "panic"

----------------------------------------------------------------------------
(* Claims on the points, the sizes and the loop of the attention resolver *)

\* The log as the text content left it, before any resolver.
InitialLog == Tokenized(bytes, 0, <<>>)

\* Whether the points of a log never go back.
PointsAscend(evs) ==
    \A i \in 1..(Len(evs) - 1) : evs[i].point <= evs[i + 1].point

RECURSIVE TakenAs(_, _, _, _)
\* The markers the matches ms from position i on took from the sequence at
\* event index e, as opener (role "open") or as closer (role "close").
TakenAs(ms, role, e, i) ==
    IF i > Len(ms) THEN 0
    ELSE (IF (IF role = "open" THEN ms[i].open ELSE ms[i].close) = e
          THEN ms[i].take ELSE 0)
         + TakenAs(ms, role, e, i + 1)

\* C21: in the log the attention resolver leaves the points never go back;
\* each sequence left (now a pair of Data) spans the markers not taken:
\* its Enter is the original one moved forward by the markers taken from it
\* as closer, its Exit the original one moved back by those taken as opener,
\* and Exit minus Enter is the size left.
C21_PointsOfSequencesLeft ==
    [][AttentionResolved =>
        /\ PointsAscend(events')
        /\ \A k \in 1..Len(sequences) :
              LET e == sequences[k].event_index
                  enter == At(InitialLog, e).point
                             + TakenAs(matches, "close", e, 1)
                  exit == At(InitialLog, e + 1).point
                             - TakenAs(matches, "open", e, 1)
              IN /\ exit - enter = sequences[k].size
                 /\ At(events, e).point = enter
                 /\ At(events, e + 1).point = exit
                 /\ HasData(events', enter, exit)
      ]_vars

\* Reached: the resolver has run and left a sequence that gave markers as
\* closer and a sequence that gave markers as opener.
C21_Witness ==
    /\ pc = "done"
    /\ PointsAscend(events)
    /\ \E k \in 1..Len(sequences) :
          TakenAs(matches, "close", sequences[k].event_index, 1) > 0
    /\ \E k \in 1..Len(sequences) :
          TakenAs(matches, "open", sequences[k].event_index, 1) > 0

\* The sequence of seqs at event index e; one of size 0 when it is gone.
SequenceOf(seqs, e) ==
    LET S == {k \in 1..Len(seqs) : seqs[k].event_index = e}
    IN IF S = {} THEN [event_index |-> e, size |-> 0]
       ELSE seqs[CHOOSE k \in S : TRUE]

\* The names of a sequence of events.
NamesOf(evs) == [k \in 1..Len(evs) |-> evs[k].name]

\* The names a match inserts at its opener and at its closer.
OpeningNames(strong) ==
    IF strong THEN <<"Strong", "StrongSequence", "StrongSequence", "StrongText">>
    ELSE <<"Emphasis", "EmphasisSequence", "EmphasisSequence", "EmphasisText">>

ClosingNames(strong) ==
    IF strong THEN <<"StrongText", "StrongSequence", "StrongSequence", "Strong">>
    ELSE <<"EmphasisText", "EmphasisSequence", "EmphasisSequence", "Emphasis">>

\* C22: at each match take is 2 when opener and closer both have at least
\* two markers left and 1 otherwise; with take 2 the events inserted are
\* those of Strong, with take 1 those of Emphasis; no size goes below 0;
\* a sequence leaves the list exactly when its size reaches 0; and at every
\* moment the original size of a sequence is the size it has left plus the
\* takes of the matches it was part of.
C22_TakeAndSizes ==
    [][/\ Matched =>
            LET m == LastMatch(matches')
                o == SequenceOf(sequences, m.open)
                c == SequenceOf(sequences, m.close)
                both == o.size >= 2 /\ c.size >= 2
                opening == EditAt(map', m.open + 2).add
                closing == EditAt(map', m.close).add
            IN /\ m.take = (IF both THEN 2 ELSE 1)
               /\ NamesOf(SubSeq(opening, 1, 4)) = OpeningNames(both)
               /\ NamesOf(SubSeq(closing, Len(closing) - 3, Len(closing))) =
                     ClosingNames(both)
               /\ SequenceOf(sequences', m.open).size = o.size - m.take
               /\ SequenceOf(sequences', m.close).size = c.size - m.take
               /\ \A e \in {m.open, m.close} :
                     (SequenceOf(sequences, e).size = m.take)
                        <=> (\A k \in 1..Len(sequences') :
                                sequences'[k].event_index # e)
               /\ Len(sequences) - Len(sequences') =
                     Cardinality({e \in {m.open, m.close} :
                                     SequenceOf(sequences, e).size = m.take})
       /\ pc' \in {"pair", "done"} =>
            /\ \A k \in 1..Len(sequences') : sequences'[k].size > 0
            /\ \A k \in 1..Len(FirstSequences) :
                  LET e == FirstSequences[k].event_index IN
                  FirstSequences[k].size =
                      SequenceOf(sequences', e).size
                        + TakenAs(matches', "open", e, 1)
                        + TakenAs(matches', "close", e, 1)
      ]_vars

\* Reached: the resolver has run with a match of take 2 and a match of
\* take 1, a sequence used up and a sequence left.
C22_Witness ==
    /\ pc = "done"
    /\ \E i, j \in 1..Len(matches) : matches[i].take = 2 /\ matches[j].take = 1
    /\ sequences # <<>>
    /\ Len(sequences) < Len(FirstSequences)

\* Whether the list seqs holds the sequence at event index e.
Holds(seqs, e) == \E k \in 1..Len(seqs) : seqs[k].event_index = e

\* C23: after a match the loop is at the same closer when it has markers
\* left, and at the sequence that followed the closer when the closer is
\* gone (at the end of the list when none followed), whether or not the
\* opener is gone; without an opener the loop goes on by one; the index
\* stays within the list or at its end.
C23_LoopIndexAfterMatch ==
    [][/\ Matched =>
            LET m == LastMatch(matches') IN
            IF Holds(sequences', m.close)
            THEN /\ close' < Len(sequences')
                 /\ At(sequences', close').event_index = m.close
            ELSE IF close + 1 < Len(sequences)
            THEN /\ close' < Len(sequences')
                 /\ At(sequences', close').event_index =
                       At(sequences, close + 1).event_index
            ELSE close' = Len(sequences')
       /\ (pc = "pair" /\ pc' = "pair" /\ ~Matched) =>
            /\ close' = close + 1
            /\ sequences' = sequences
       /\ pc' = "pair" => (0 <= close' /\ close' <= Len(sequences'))
      ]_vars

\* Reached: matches in which the opener was used up, one with the closer
\* left and one with the closer used up and a sequence after it.
C23_Witness ==
    /\ pc = "done"
    /\ \E i \in 1..Len(matches) :
          /\ ~Holds(sequences, matches[i].open)
          /\ Holds(sequences, matches[i].close)
    /\ \E i \in 1..Len(matches) :
          /\ \A j \in 1..Len(matches) : matches[j].open # matches[i].close
          /\ ~Holds(sequences, matches[i].close)
          /\ \E k \in 1..Len(FirstSequences) :
                FirstSequences[k].event_index > matches[i].close

RECURSIVE TotalSize(_, _)
\* The markers left in the sequences from position i on.
TotalSize(seqs, i) ==
    IF i > Len(seqs) THEN 0 ELSE seqs[i].size + TotalSize(seqs, i + 1)

\* C24: every turn of the pairing loop moves the closer index forward or
\* leaves fewer markers in the sequences, and the loop comes to its end.
C24_PairingLoopEnds ==
    /\ [][(pc = "pair" /\ pc' = "pair") =>
             \/ close' > close
             \/ TotalSize(sequences', 1) < TotalSize(sequences, 1)]_vars
    /\ (pc = "pair") ~> (pc # "pair")

\* Reached: the loop has ended after two matches, one inside the other.
C24_Witness ==
    /\ pc = "done"
    /\ Len(matches) = 2
    /\ matches[2].open < matches[1].open
    /\ close = Len(sequences)

----------------------------------------------------------------------------
(* Claims on the open and close flags of a sequence *)

\* The class of the character before a sequence.
ClassBefore(s) == classify_character(CharBefore(s.start_point))

\* The class of the character after a sequence.
ClassAfter(s) == classify_character(CharAfter(s.end_point))

\* C25: with before and after the classes of the characters around a
\* sequence, open is (after = Other) or (after = Punctuation and before is
\* not Other), close is (before = Other) or (before = Punctuation and after
\* is not Other); asterisks store both as they are, underscores store open
\* only with (before is not Other or not close) and close only with (after is
\* not Other or not open), both taken from the open and close above.
C25_OpenAndCloseFlags ==
    [][SequencesFound =>
          \A k \in 1..Len(sequences') :
              LET s == sequences'[k]
                  before == ClassBefore(s)
                  after == ClassAfter(s)
                  open == \/ after = "Other"
                          \/ (after = "Punctuation" /\ before # "Other")
                  cl == \/ before = "Other"
                        \/ (before = "Punctuation" /\ after # "Other")
              IN /\ s.marker \in {"*", "_"}
                 /\ s.marker = "*" => (s.open <=> open) /\ (s.close <=> cl)
                 /\ s.marker = "_" =>
                       /\ s.open <=> (open /\ (before # "Other" \/ ~cl))
                       /\ s.close <=> (cl /\ (after # "Other" \/ ~open))
      ]_vars

\* Reached: the sequences found hold an underscore sequence after a letter
\* and before punctuation, stored as a closer and not as an opener, and an
\* asterisk sequence between letters, stored as both.
C25_Witness ==
    /\ pc = "pair"
    /\ \E k \in 1..Len(sequences) :
           LET s == sequences[k] IN
           /\ s.marker = "_"
           /\ ClassBefore(s) = "Other" /\ ClassAfter(s) = "Punctuation"
           /\ s.close /\ ~s.open
    /\ \E k \in 1..Len(sequences) :
           LET s == sequences[k] IN
           /\ s.marker = "*"
           /\ ClassBefore(s) = "Other" /\ ClassAfter(s) = "Other"
           /\ s.open /\ s.close

----------------------------------------------------------------------------
(* Claims on start and ok of label end *)

\* The positions (1-based) of the label starts on a stack that are not
\* balanced.
Unbalanced(stack) == {k \in 1..Len(stack) : ~stack[k].balanced}

\* The greatest number of a set of naturals that is not empty.
Greatest(S) == CHOOSE k \in S : \A j \in S : j <= k

\* Whether the text content is at a `]`, where start of label end runs.
AtLabelEnd == pc = "text" /\ Code(index) = "]"

\* C26: at `]`, start takes the topmost label start that is not balanced,
\* inactive or not. Without one it returns Nok with no event and no change
\* of the lists; when the one taken is inactive it becomes balanced and
\* start returns Nok with no event; else Enter(LabelEnd), Enter(LabelMarker),
\* Exit(LabelMarker), Exit(LabelEnd) are emitted and after follows.
C26_LabelEndStart ==
    [][AtLabelEnd =>
          LET open == Unbalanced(label_start_stack) IN
          IF open = {}
          THEN /\ pc' = "data"
               /\ UNCHANGED <<events, label_start_stack,
                              label_start_list_loose, media_list, index>>
          ELSE LET top == Greatest(open) IN
               IF label_start_stack[top].inactive
               THEN /\ pc' = "data"
                    /\ label_start_stack' =
                          [label_start_stack EXCEPT ![top].balanced = TRUE]
                    /\ UNCHANGED <<events, label_start_list_loose,
                                   media_list, index>>
               ELSE /\ pc' = "after"
                    /\ info'.label_start_index = top - 1
                    /\ Len(events') = Len(events) + 4
                    /\ LET n == Len(events) IN
                       /\ SubSeq(events', 1, n) = events
                       /\ events'[n + 1].kind = "Enter"
                       /\ events'[n + 1].name = "LabelEnd"
                       /\ events'[n + 2].kind = "Enter"
                       /\ events'[n + 2].name = "LabelMarker"
                       /\ events'[n + 3].kind = "Exit"
                       /\ events'[n + 3].name = "LabelMarker"
                       /\ events'[n + 4].kind = "Exit"
                       /\ events'[n + 4].name = "LabelEnd"
                    /\ UNCHANGED <<label_start_stack,
                                   label_start_list_loose, media_list>>
      ]_vars

\* Reached: start has returned Nok at a `]` whose label start, the only one
\* on the stack, was inactive and is balanced now, with no event added.
C26_Witness ==
    /\ pc = "data"
    /\ Code(index) = "]"
    /\ checkpoint.index # index
    /\ media_list # <<>>
    /\ Len(label_start_stack) = 1
    /\ label_start_stack[1].inactive
    /\ label_start_stack[1].balanced
    /\ events[Len(events)].name # "LabelEnd"

\* The name of the Enter a label start begins with: LabelLink or LabelImage.
StartName(label_start) == At(events, label_start.start[1]).name

\* C27: when ok commits a match, the label start matched leaves the stack,
\* the label starts above it go to the end of the loose list, each of them
\* balanced, one Media is pushed, and the label starts below stay in their
\* order; a LabelLink start left on the stack becomes inactive exactly when
\* the start matched is a LabelLink, and no LabelImage start is ever
\* inactive.
C27_OkFrame ==
    [][/\ pc = "ok" =>
             LET at == info.label_start_index + 1
                 matched == label_start_stack[at]
                 above == SubSeq(label_start_stack, at + 1,
                                 Len(label_start_stack))
                 is_link == StartName(matched) = "LabelLink"
             IN /\ Len(label_start_stack') = at - 1
                /\ \A k \in 1..(at - 1) :
                      LET old == label_start_stack[k]
                          new == label_start_stack'[k]
                      IN /\ new.start = old.start
                         /\ new.balanced = old.balanced
                         /\ new.inactive =
                               IF is_link /\ StartName(old) = "LabelLink"
                               THEN TRUE ELSE old.inactive
                /\ label_start_list_loose' = label_start_list_loose \o above
                /\ \A k \in 1..Len(above) :
                      above[k].balanced /\ above[k].start # matched.start
                /\ Len(media_list') = Len(media_list) + 1
                /\ SubSeq(media_list', 1, Len(media_list)) = media_list
                /\ media_list'[Len(media_list')].start = matched.start
       /\ \A k \in 1..Len(label_start_stack') :
             At(events', label_start_stack'[k].start[1]).name = "LabelImage"
                 => ~label_start_stack'[k].inactive
      ]_vars

\* Reached: ok has committed a link whose label start had a LabelImage
\* start below it, which is left on the stack and is not inactive.
C27_Witness ==
    /\ pc = "text"
    /\ Len(media_list) = 1
    /\ StartName(media_list[1]) = "LabelLink"
    /\ label_start_stack # <<>>
    /\ StartName(label_start_stack[1]) = "LabelImage"
    /\ ~label_start_stack[1].inactive
    /\ label_start_stack[1].start[1] < media_list[1].start[1]

----------------------------------------------------------------------------
(* Claims on the order of the events resolve_media inserts *)

\* The index of the first event after the label start of a media.
TextEnterIndex(media) ==
    media.start[1] + (IF StartName(media) = "LabelLink" THEN 4 ELSE 6)

\* The event indices at which resolve_media inserts events for a media.
InsertIndices(media) ==
    {media.start[1], TextEnterIndex(media), media.end[1], media.end[1] + 4,
     media.end[2] + 1}

\* Whether no other media of the list has events inserted at an index where
\* media k has.
Alone(ml, k) ==
    \A j \in 1..Len(ml) :
        j # k => InsertIndices(ml[j]) \cap InsertIndices(ml[k]) = {}

\* Whether the resolved log out has the events of a media in the order
\* Enter(group), Enter(Label), label start, Enter(LabelText), content,
\* Exit(LabelText), LabelEnd, Exit(Label), resource or reference,
\* Exit(group), with the content, and nothing else, inside the LabelText.
InOrder(out, media) ==
    LET first == At(events, media.start[1])
        last == At(events, media.start[2])
        p == first.point
        q == At(events, media.end[1]).point
        empty == TextEnterIndex(media) = media.end[1]
        group_enter == PosOf(out, "Enter", GroupEnterName(first), p)
        label_enter == PosOf(out, "Enter", "Label", p)
        start_enter == PosOf(out, "Enter", first.name, p)
        start_exit == PosOf(out, "Exit", last.name, last.point)
        text_enter == PosOf(out, "Enter", "LabelText",
                            At(events, TextEnterIndex(media)).point)
        text_exit == PosOf(out, "Exit", "LabelText", q)
        end_enter == PosOf(out, "Enter", "LabelEnd", q)
        end_exit == PosOf(out, "Exit", "LabelEnd", q + 1)
        label_exit == PosOf(out, "Exit", "Label", q + 1)
        group_exit == PosOf(out, "Exit", GroupEnterName(first),
                            At(events, media.end[2]).point)
    IN /\ group_enter > 0
       /\ label_enter = group_enter + 1
       /\ start_enter = label_enter + 1
       /\ start_exit > start_enter
       /\ IF empty
          THEN end_enter = start_exit + 1
          ELSE /\ text_enter = start_exit + 1
               /\ text_exit > text_enter + 1
               /\ end_enter = text_exit + 1
       /\ end_exit > end_enter
       /\ label_exit > end_exit
       /\ group_exit > label_exit + (media.end[2] - (media.end[1] + 3))

\* C28: for a committed media with no other media starting or ending at the
\* same event indices, the log resolve_media leaves has, in this order,
\* Enter(group), Enter(Label), the label start, Enter(LabelText), the label
\* content, Exit(LabelText), the LabelEnd, Exit(Label), the resource or
\* reference and Exit(group); for a shortcut reference Exit(Label) is right
\* before Exit(group).
C28_OrderOfOneMedia ==
    [][MediaResolved =>
          \A k \in 1..Len(media_list) :
              Alone(media_list, k) =>
                  InOrder(events', media_list[k])
      ]_vars

\* Whether the events evs hold the event e.
Holding(evs, e) == \E i \in 1..Len(evs) : evs[i] = e

\* Whether the events evs hold an event named LabelText.
HoldingText(evs) == \E i \in 1..Len(evs) : evs[i].name = "LabelText"

\* Whether the label of a media is empty: the Enter of its LabelEnd is the
\* event right after its label start.
EmptyLabel(media) == media.end[1] = media.start[2] + 1

\* C29: for a media with an empty label resolve_media inserts neither
\* Enter(LabelText) nor Exit(LabelText); for every other media it inserts
\* Enter(LabelText) at the event right after the label start (the start
\* index + 4 for a LabelLink, + 6 for a LabelImage) and Exit(LabelText) at
\* the Enter of the LabelEnd.
C29_LabelTextUnlessEmpty ==
    [][MediaResolved =>
          /\ \A k \in 1..Len(media_list) :
                LET media == media_list[k]
                    after_start ==
                        media.start[1]
                          + (IF StartName(media) = "LabelLink" THEN 4 ELSE 6)
                IN /\ after_start = media.start[2] + 1
                   /\ IF EmptyLabel(media)
                      THEN ~HoldingText(InsertsAt(map', media.end[1]))
                      ELSE /\ Holding(InsertsAt(map', after_start),
                                  Event("Enter", "LabelText",
                                        At(events, after_start).point))
                           /\ Holding(InsertsAt(map', media.end[1]),
                                  Event("Exit", "LabelText",
                                        At(events, media.end[1]).point))
          /\ LET filled == {k \in 1..Len(media_list) :
                               ~EmptyLabel(media_list[k])}
             IN /\ Count(events', "Enter", "LabelText") = Cardinality(filled)
                /\ Count(events', "Exit", "LabelText") = Cardinality(filled)
      ]_vars

\* Reached: resolve_media has run on a log whose one media has an empty
\* label; the log has its group and Label events and no LabelText.
C29_Witness ==
    /\ pc = "done"
    /\ map.consumed
    /\ Count(events, "Enter", "Label") = 1
    /\ Count(events, "Exit", "Label") = 1
    /\ Count(events, "Enter", "LabelText") = 0
    /\ Count(events, "Exit", "LabelText") = 0

\* The label starts resolve_media turns into Data.
Left == label_start_list_loose \o label_start_stack

\* The position in a log of the first group Exit at a point; 0 without one.
GroupExitPos(evs, point) ==
    LET S == {i \in 1..Len(evs) : /\ evs[i].kind = "Exit"
                                  /\ evs[i].name \in {"Link", "Image"}
                                  /\ evs[i].point = point}
    IN IF S = {} THEN 0 ELSE CHOOSE i \in S : \A j \in S : i <= j

\* C30: when an unmatched label start is the event right after the end of a
\* committed media, so that its Data replacement and the group Exit of the
\* media are recorded at one edit index, the resolved log has the group Exit
\* before the Enter and Exit of the Data, and its points never decrease.
C30_GroupExitBeforeLooseData ==
    [][MediaResolved =>
          \A k \in 1..Len(media_list) : \A j \in 1..Len(Left) :
              LET media == media_list[k]
                  data_enter_index == Left[j].start[1]
                  group_exit ==
                      GroupExitPos(events', At(events, media.end[2]).point)
                  data_enter ==
                      PosOf(events', "Enter", "Data",
                            At(events, data_enter_index).point)
              IN data_enter_index = media.end[2] + 1 =>
                    /\ group_exit > 0
                    /\ group_exit < data_enter
                    /\ PointsAscend(events')
      ]_vars

----------------------------------------------------------------------------
(* Claims on the registration and the turn of the resolvers *)

\* The number of times a name is in the list of resolvers.
Registered(rs, name) == Cardinality({i \in 1..Len(rs) : rs[i] = name})

\* Whether the content is tokenized to its end: the resolvers have their
\* turn, or the pass is over.
Tokenizing == pc \notin {"resolve", "pair", "done", "panic"}

\* C31: however many attention sequences and label ends are tokenized, the
\* attention resolver and the media resolver are registered once each; after
\* tokenization no resolver is registered, each registered resolver is run
\* and leaves the list when it has run, and the media resolver has run
\* before the attention resolver is entered, whichever was registered first.
C31_ResolversOnceMediaFirst ==
    [][/\ Registered(resolvers', "media") <= 1
       /\ Registered(resolvers', "attention") <= 1
       /\ (Tokenizing /\ pc = "text" /\ Code(index) \in {"*", "_"}) =>
             Registered(resolvers', "attention") = 1
       /\ pc = "ok" => Registered(resolvers', "media") = 1
       /\ (Tokenizing /\ Code(index) # Eof) =>
             \A name \in {"media", "attention"} :
                 Registered(resolvers', name) >= Registered(resolvers, name)
       /\ ~Tokenizing =>
             resolvers' \in {resolvers, Tail(resolvers)}
       /\ (pc # "pair" /\ pc' = "pair") =>
             /\ Registered(resolvers, "media") = 0
             /\ Head(resolvers) = "attention"
       /\ (RunsNext("media") /\ pc' # pc) =>
             /\ Registered(resolvers', "media") = 0
             /\ Registered(resolvers', "attention") =
                   Registered(resolvers, "attention")
             /\ sequences' = <<>>
       /\ pc' = "done" => resolvers' = <<>>
       /\ pc' = "panic" => Registered(resolvers', "media") = 0
      ]_vars

\* Reached: the attention resolver, registered first, is at its pairing
\* loop after the media resolver has run for a link registered later.
C31_Witness ==
    /\ pc = "pair"
    /\ Head(bytes) = "*"
    /\ map.consumed
    /\ resolvers = <<"attention">>
    /\ Count(events, "Enter", "Link") = 1
    /\ Len(sequences) = 2

----------------------------------------------------------------------------
(* Claims on the edits the map holds *)

\* The positions in the entries m of the edits at index at.
EditsAt(m, at) == {i \in 1..Len(m) : m[i].at = at}

\* A step in which add or add_before records a call.
Recorded == Len(calls') = Len(calls) + 1

\* C32: the map holds at most one edit per index. add at an index that has
\* an edit adds `remove` to the remove count of that edit and puts the new
\* inserts after the inserts it has; add_before does the same and puts the
\* new inserts before them; a call at a new index records a new edit; every
\* other edit stays as it is.
C32_OneEditPerIndex ==
    [][/\ \A at \in 0..MaxEditEvents :
             Cardinality(EditsAt(map'.map, at)) <= 1
       /\ Recorded =>
             LET call == calls'[Len(calls')]
                 old == EditsAt(map.map, call.at)
             IN IF old = {}
                THEN map'.map =
                        Append(map.map, [at |-> call.at,
                                         remove |-> call.remove,
                                         add |-> call.add])
                ELSE /\ Len(map'.map) = Len(map.map)
                     /\ \A i \in 1..Len(map.map) :
                           IF i \in old
                           THEN /\ map'.map[i].at = call.at
                                /\ map'.map[i].remove =
                                      map.map[i].remove + call.remove
                                /\ map'.map[i].add =
                                      IF call.before
                                      THEN call.add \o map.map[i].add
                                      ELSE map.map[i].add \o call.add
                           ELSE map'.map[i] = map.map[i]
      ]_vars

\* Reached: add_before was called at the index of an edit that had other
\* inserts; the map holds one edit with the new inserts first.
C32_Witness ==
    /\ Len(calls) = 2
    /\ calls[1].at = calls[2].at
    /\ calls[2].before
    /\ calls[1].add # <<>> /\ calls[2].add # <<>>
    /\ calls[1].add # calls[2].add
    /\ ~map.consumed
    /\ Len(map.map) = 1
    /\ map.map[1].remove = calls[1].remove + calls[2].remove
    /\ map.map[1].add = calls[2].add \o calls[1].add

\* C33: whatever edits are recorded, an original event whose index is in the
\* range [at, at + remove) of an edit is not in the events consume returns,
\* also when the index of another edit is inside that range.
C33_RemovedEventsStayOut ==
    [][ConsumeReturns =>
          \A i \in 0..(Len(events) - 1) :
              RemovedBy(map, i) => PlacesOf(events', i) = {}
      ]_vars

----------------------------------------------------------------------------
(* Claims on the attention tokenizer *)

\* The indices below n at which a maximal run of one marker starts.
RunStarts(n) ==
    {i \in 0..(n - 1) :
        /\ At(bytes, i) \in {"*", "_"}
        /\ (i = 0 \/ At(bytes, i - 1) # At(bytes, i))}

\* Whether the events at positions k and k + 1 of a log are the Enter and
\* the Exit of an AttentionSequence over a maximal run of one marker.
OverRun(evs, k) ==
    /\ k < Len(evs)
    /\ evs[k + 1].kind = "Exit"
    /\ evs[k + 1].name = "AttentionSequence"
    /\ LET p == evs[k].point
           q == evs[k + 1].point
       IN /\ p < q
          /\ p \in RunStarts(Len(bytes))
          /\ \A i \in p..(q - 1) : At(bytes, i) = At(bytes, p)
          /\ Code(q) # At(bytes, p)

\* C34: the attention tokenizer emits for each run one Enter and Exit of
\* AttentionSequence over a maximal run of at least one byte of the marker
\* seen at start, so that a byte of the other marker ends the sequence;
\* start returns Nok with no event on a byte other than `*` and `_` and when
\* the construct is disabled; the marker kept is 0 again when the sequence
\* has ended.
C34_OnePairPerRun ==
    [][/\ pc' = "text" =>
             /\ \A k \in 1..Len(events') :
                   (events'[k].kind = "Enter"
                        /\ events'[k].name = "AttentionSequence")
                       => OverRun(events', k)
             /\ Count(events', "Enter", "AttentionSequence") =
                   IF constructs.attention
                   THEN Cardinality(RunStarts(index')) ELSE 0
             /\ Count(events', "Exit", "AttentionSequence") =
                   Count(events', "Enter", "AttentionSequence")
       /\ (pc = "text" /\ ~(Code(index) \in {"*", "_"} /\ constructs.attention)) =>
             /\ pc' # "attention_inside"
             /\ Count(events', "Enter", "AttentionSequence") =
                   Count(events, "Enter", "AttentionSequence")
             /\ pc' = "data" =>
                   UNCHANGED <<events, index, tokenize_state, resolvers>>
       /\ (pc = "text" /\ pc' = "data") =>
             ~(Code(index) \in {"*", "_"} /\ constructs.attention)
       /\ pc' = "attention_inside" =>
             /\ tokenize_state'.marker \in {"*", "_"}
             /\ tokenize_state'.marker =
                   At(bytes, events'[Len(events')].point)
       /\ pc' # "attention_inside" => tokenize_state'.marker = Nul
       /\ (pc = "attention_inside" /\ pc' = "text") =>
             "attention" \in {resolvers'[i] : i \in 1..Len(resolvers')}
      ]_vars

\* Reached: the buffer `*_` is tokenized to its end into two sequences of
\* one byte each, and the marker kept is 0.
C34_Witness ==
    /\ pc = "text"
    /\ bytes = <<"*", "_">>
    /\ index = 2
    /\ events = <<Event("Enter", "AttentionSequence", 0),
                  Event("Exit", "AttentionSequence", 1),
                  Event("Enter", "AttentionSequence", 1),
                  Event("Exit", "AttentionSequence", 2)>>
    /\ tokenize_state.marker = Nul

----------------------------------------------------------------------------
(* Claims on slices *)

\* Whether the start of a position is not after its end: by index, then by
\* virtual spaces.
StartNotAfterEnd(p) ==
    \/ p.start.index < p.end.index
    \/ (p.start.index = p.end.index /\ p.start.vs <= p.end.vs)

\* C35: for a position whose start is not after its end and whose vs are
\* below TAB_SIZE, from_position takes no byte range with its start past
\* its end. With no vs at either point the bytes are those from start.index
\* up to end.index and before = after = 0; with vs at the start the byte at
\* start.index is left out and before = TAB_SIZE - start.vs; with vs at the
\* end the byte at end.index is taken in and after = end.vs - 1; len() is
\* the number of bytes plus before plus after.
C35_SliceOfPosition ==
    [][(pc = "position" /\ StartNotAfterEnd(position)) =>
          LET s == position.start
              e == position.end
              first == IF s.vs > 0 THEN s.index + 1 ELSE s.index
              taken == {i \in 0..(Len(bytes) - 1) :
                           first <= i /\ i < first + Len(slice'.bytes)}
          IN /\ pc' = "slice"
             /\ \A i \in taken : At(slice'.bytes, i - first) = At(bytes, i)
             /\ Cardinality(taken) = Len(slice'.bytes)
             /\ (s.vs = 0 /\ e.vs = 0) =>
                   /\ slice'.bytes = Slice(bytes, s.index, e.index)
                   /\ slice'.before = 0 /\ slice'.after = 0
             /\ s.vs > 0 =>
                   /\ s.index \notin taken
                   /\ slice'.before = TAB_SIZE - s.vs
             /\ s.vs = 0 => slice'.before = 0
             /\ e.vs > 0 =>
                   /\ e.index \in taken
                   /\ \A i \in taken : i <= e.index
                   /\ slice'.after = e.vs - 1
             /\ e.vs = 0 =>
                   /\ \A i \in taken : i < e.index
                   /\ slice'.after = 0
             /\ Slice_len(slice') =
                   Len(slice'.bytes) + slice'.before + slice'.after
      ]_vars
====
